---- MODULE Spec2Model ----
(***************************************************************************)
(* A model of the kalarand game client core: the isometric coordinate      *)
(* transforms, the world data store, the camera, the input controller,     *)
(* the isometric renderer and the world controller that drives them.       *)
(*                                                                         *)
(* JavaScript numbers are modelled as exact rationals whose denominator    *)
(* is a power of 20 (every constant of the code: 0.15, 0.3, 0.5, 0.001,    *)
(* 0.01, 1/16, 1/8 is such a number).  A number is a sign and a magnitude  *)
(* written in base Base = 20^3: m[1] is the integer part, m[2..] are the   *)
(* fractional digits, most significant first, with no trailing zero.       *)
(* Rounding of IEEE doubles (relative error 2^-53) is not modelled.        *)
(***************************************************************************)
EXTENDS Integers, Sequences, FiniteSets, TLC

Base == 20 * 20 * 20

----------------------------------------------------------------------------
(* Magnitudes: non-negative numbers as digit sequences.                    *)

RECURSIVE Trim(_)
Trim(m) ==
    IF Len(m) > 1 /\ m[Len(m)] = 0 THEN Trim(SubSeq(m, 1, Len(m) - 1)) ELSE m

Pad(m, n) == m \o [i \in 1..(n - Len(m)) |-> 0]

MaxLen(a, b) == IF Len(a) >= Len(b) THEN Len(a) ELSE Len(b)

\* -1, 0 or 1 as a < b, a = b, a > b; a and b of the same length, from digit i on
RECURSIVE MCmpAt(_, _, _)
MCmpAt(a, b, i) ==
    IF i > Len(a) THEN 0
    ELSE IF a[i] < b[i] THEN -1
    ELSE IF a[i] > b[i] THEN 1
    ELSE MCmpAt(a, b, i + 1)

MCmp(a, b) == MCmpAt(Pad(a, MaxLen(a, b)), Pad(b, MaxLen(a, b)), 1)

\* digits i..1 of a + b + carry c, a and b of the same length
RECURSIVE MAddAt(_, _, _, _)
MAddAt(a, b, i, c) ==
    IF i = 1 THEN <<a[1] + b[1] + c>>
    ELSE LET v == a[i] + b[i] + c
         IN  MAddAt(a, b, i - 1, v \div Base) \o <<v % Base>>

MAdd(a, b) ==
    LET n == MaxLen(a, b) IN Trim(MAddAt(Pad(a, n), Pad(b, n), n, 0))

\* digits i..1 of a - b - borrow c, for a >= b of the same length
RECURSIVE MSubAt(_, _, _, _)
MSubAt(a, b, i, c) ==
    IF i = 1 THEN <<a[1] - b[1] - c>>
    ELSE LET v == a[i] - b[i] - c
         IN  IF v < 0 THEN MSubAt(a, b, i - 1, 1) \o <<v + Base>>
                      ELSE MSubAt(a, b, i - 1, 0) \o <<v>>

MSub(a, b) ==
    LET n == MaxLen(a, b) IN Trim(MSubAt(Pad(a, n), Pad(b, n), n, 0))

\* digits i..1 of a * k + carry c, for a natural k
RECURSIVE MScaleAt(_, _, _, _)
MScaleAt(a, k, i, c) ==
    IF i = 1 THEN <<a[1] * k + c>>
    ELSE LET v == a[i] * k + c
         IN  MScaleAt(a, k, i - 1, v \div Base) \o <<v % Base>>

MScale(a, k) == Trim(MScaleAt(a, k, Len(a), 0))

\* a / Base
ShiftR(m) == Trim(<<m[1] \div Base, m[1] % Base>> \o Tail(m))

\* a * (b[j] + b[j+1]/Base + ...)
RECURSIVE MMulFrom(_, _, _)
MMulFrom(a, b, j) ==
    IF j > Len(b) THEN <<0>>
    ELSE MAdd(MScale(a, b[j]), ShiftR(MMulFrom(a, b, j + 1)))

MMul(a, b) == MMulFrom(a, b, 1)

----------------------------------------------------------------------------
(* Signed numbers.                                                         *)

Num(neg, m) == [neg |-> neg /\ Trim(m) # <<0>>, m |-> Trim(m)]

I(k) == IF k < 0 THEN Num(TRUE, <<-k>>) ELSE Num(FALSE, <<k>>)

NNeg(x) == Num(~x.neg, x.m)

NAbs(x) == Num(FALSE, x.m)

NAdd(x, y) ==
    IF x.neg = y.neg THEN Num(x.neg, MAdd(x.m, y.m))
    ELSE IF MCmp(x.m, y.m) >= 0 THEN Num(x.neg, MSub(x.m, y.m))
    ELSE Num(y.neg, MSub(y.m, x.m))

NSub(x, y) == NAdd(x, NNeg(y))

NMul(x, y) == Num(x.neg # y.neg, MMul(x.m, y.m))

\* x / k for a natural k that divides Base
NDiv(x, k) == Num(x.neg, ShiftR(MScale(x.m, Base \div k)))

\* the rational n / d, for d dividing Base
Q(n, d) == NDiv(I(n), d)

NLt(x, y) ==
    IF x.neg # y.neg THEN x.neg
    ELSE IF x.neg THEN MCmp(x.m, y.m) > 0
    ELSE MCmp(x.m, y.m) < 0

NLe(x, y) == x = y \/ NLt(x, y)

NMax(x, y) == IF NLt(x, y) THEN y ELSE x

NMin(x, y) == IF NLt(y, x) THEN y ELSE x

IsInt(x) == Len(x.m) = 1

\* Math.floor
NFloor(x) ==
    IF ~x.neg \/ IsInt(x) THEN Num(x.neg, <<x.m[1]>>)
    ELSE Num(TRUE, <<x.m[1] + 1>>)

\* Math.round: the nearest integer, halves towards +infinity
NRound(x) == NFloor(NAdd(x, Q(1, 2)))

----------------------------------------------------------------------------
(* Bounds of the model.                                                    *)

\* how many goal-setting Camera calls one behaviour of SpecCamera makes
MaxGoalOps == 1

\* how many update() calls the Camera is given to reach a goal that no longer
\* changes: 0.85^72 * 99 < 0.001, and 99 is the largest distance in the bounds
SettleFrames == 72

\* tile coordinates given to calculateDepth run from -1 to MaxTileCoord
MaxTileCoord == 2

\* world coordinates given to worldToScreen run from -MaxWorld to MaxWorld,
\* in steps of one half
MaxWorld == 3

\* calls made on one WorldData
MaxStoreOps == 2

\* calls made on one IsometricRenderer
MaxRendererOps == 4

\* initialize() calls made on one WorldController
MaxInitCalls == 3

\* generateRandomWorld() and setTile calls made on one WorldController
MaxWorldOps == 3

\* update() calls (frames) made on one WorldController
MaxFrames == 2

\* wheelZoomQueue stays within -MaxWheel..MaxWheel
MaxWheel == 1

----------------------------------------------------------------------------
VARIABLES
    camera,           \* the Camera object
    inputController,  \* the InputController object
    now,              \* Date.now(), in ms
    worldData,        \* the WorldData object
    renderer,         \* the IsometricRenderer object and its sprites
    isInitialized,    \* WorldController.isInitialized
    lastHoveredTile,  \* WorldController.lastHoveredTile
    calls,            \* the initialize() calls in flight
    arg,              \* the input of a pure-function call
    result,           \* and what it returned
    disk,             \* the files of the output directory
    hist              \* history: what the last operation was and saw

vars == <<camera, inputController, now, worldData, renderer, isInitialized,
          lastHoveredTile, calls, arg, result, disk, hist>>

----------------------------------------------------------------------------
(* Coordinate transforms (IsometricUtils).                                 *)

TILE_WIDTH == 32
TILE_HEIGHT == 16
TILE_WIDTH_HALF == TILE_WIDTH \div 2
TILE_HEIGHT_HALF == TILE_HEIGHT \div 2
TILE_DEPTH == TILE_HEIGHT_HALF

Coord(x, y) == [x |-> x, y |-> y]

worldToScreen(world) ==
    Coord(NMul(NSub(world.x, world.y), I(TILE_WIDTH_HALF)),
          NMul(NAdd(world.x, world.y), I(TILE_HEIGHT_HALF)))

screenToWorld_signSlip(screen) ==
    Coord(NDiv(NAdd(NDiv(screen.x, TILE_WIDTH_HALF),
                    NDiv(screen.y, TILE_HEIGHT_HALF)), 2),
          NDiv(NSub(NDiv(screen.x, TILE_WIDTH_HALF),
                    NDiv(screen.y, TILE_HEIGHT_HALF)), 2))

screenToWorld(screen) ==
    Coord(NDiv(NAdd(NDiv(screen.x, TILE_WIDTH_HALF),
                    NDiv(screen.y, TILE_HEIGHT_HALF)), 2),
          NDiv(NSub(NDiv(screen.y, TILE_HEIGHT_HALF),
                    NDiv(screen.x, TILE_WIDTH_HALF)), 2))

\* the weight of x + y in the depth key
DepthMultiplier == 1000

calculateDepth_noMultiplier(world, height) ==
    NAdd(NAdd(world.x, world.y), height)

calculateDepth(world, height) ==
    NAdd(NMul(NAdd(world.x, world.y), I(DepthMultiplier)), height)

screenToWorldMovement(screenX, screenY) ==
    Coord(NMul(NAdd(screenX, screenY), Q(1, 2)),
          NMul(NSub(screenY, screenX), Q(1, 2)))

----------------------------------------------------------------------------
(* Camera.                                                                 *)

\* new Camera(worldWidth, worldHeight)
Camera_new(worldWidth, worldHeight) ==
    [ target     |-> Coord(NDiv(I(worldWidth), 2), NDiv(I(worldHeight), 2)),
      speed      |-> Q(3, 10),
      zoom       |-> I(2),
      minZoom    |-> I(1),
      maxZoom    |-> I(4),
      smoothing  |-> Q(3, 20),
      nextTarget |-> Coord(NDiv(I(worldWidth), 2), NDiv(I(worldHeight), 2)),
      nextZoom   |-> I(2),
      minX       |-> I(0),
      minY       |-> I(0),
      maxX       |-> I(worldWidth - 1),
      maxY       |-> I(worldHeight - 1) ]

setNextTarget_noClamp(c, worldX, worldY) ==
    [c EXCEPT !.nextTarget = Coord(worldX, worldY)]

setNextTarget(c, worldX, worldY) ==
    [c EXCEPT !.nextTarget =
        Coord(NMax(c.minX, NMin(c.maxX, worldX)),
              NMax(c.minY, NMin(c.maxY, worldY)))]

move(c, deltaX, deltaY) ==
    setNextTarget(c, NAdd(c.nextTarget.x, deltaX), NAdd(c.nextTarget.y, deltaY))

setZoom_noUpperClamp(c, z) ==
    [c EXCEPT !.nextZoom = NMax(c.minZoom, NRound(z))]

setZoom(c, z) ==
    LET integerZoom == NRound(z)
    IN  [c EXCEPT !.nextZoom = NMax(c.minZoom, NMin(c.maxZoom, integerZoom))]

zoomIn(c) == setZoom(c, NAdd(c.nextZoom, I(1)))

zoomOut(c) == setZoom(c, NSub(c.nextZoom, I(1)))

\* the thresholds of the snap test in Camera.update
SnapPos == Q(1, 1000)
SnapZoom == Q(1, 100)

Camera_update_yUsesDx(c) ==
    LET dx == NSub(c.nextTarget.x, c.target.x)
        dy == NSub(c.nextTarget.y, c.target.y)
        dz == NSub(c.nextZoom, c.zoom)
        stepped == [c EXCEPT
            !.target = Coord(NAdd(c.target.x, NMul(dx, c.smoothing)),
                             NAdd(c.target.y, NMul(dx, c.smoothing))),
            !.zoom   = NAdd(c.zoom, NMul(dz, c.smoothing))]
    IN  IF /\ NLt(NAbs(dx), SnapPos)
           /\ NLt(NAbs(dy), SnapPos)
           /\ NLt(NAbs(dz), SnapZoom)
        THEN [stepped EXCEPT !.target = Coord(c.nextTarget.x, c.nextTarget.y),
                             !.zoom   = c.nextZoom]
        ELSE stepped

Camera_update_snapsOnAny(c) ==
    LET dx == NSub(c.nextTarget.x, c.target.x)
        dy == NSub(c.nextTarget.y, c.target.y)
        dz == NSub(c.nextZoom, c.zoom)
        stepped == [c EXCEPT
            !.target = Coord(NAdd(c.target.x, NMul(dx, c.smoothing)),
                             NAdd(c.target.y, NMul(dy, c.smoothing))),
            !.zoom   = NAdd(c.zoom, NMul(dz, c.smoothing))]
    IN  IF \/ NLt(NAbs(dx), SnapPos)
           \/ NLt(NAbs(dy), SnapPos)
           \/ NLt(NAbs(dz), SnapZoom)
        THEN [stepped EXCEPT !.target = Coord(c.nextTarget.x, c.nextTarget.y),
                             !.zoom   = c.nextZoom]
        ELSE stepped

Camera_update(c) ==
    LET dx == NSub(c.nextTarget.x, c.target.x)
        dy == NSub(c.nextTarget.y, c.target.y)
        dz == NSub(c.nextZoom, c.zoom)
        stepped == [c EXCEPT
            !.target = Coord(NAdd(c.target.x, NMul(dx, c.smoothing)),
                             NAdd(c.target.y, NMul(dy, c.smoothing))),
            !.zoom   = NAdd(c.zoom, NMul(dz, c.smoothing))]
    IN  IF /\ NLt(NAbs(dx), SnapPos)
           /\ NLt(NAbs(dy), SnapPos)
           /\ NLt(NAbs(dz), SnapZoom)
        THEN [stepped EXCEPT !.target = Coord(c.nextTarget.x, c.nextTarget.y),
                             !.zoom   = c.nextZoom]
        ELSE stepped

getScreenPosition(c) ==
    LET screenPos == worldToScreen(c.target)
    IN  Coord(NMul(NNeg(screenPos.x), c.zoom), NMul(NNeg(screenPos.y), c.zoom))

snapToNextTarget(c) ==
    [c EXCEPT !.target = Coord(c.nextTarget.x, c.nextTarget.y),
              !.zoom   = c.nextZoom]

setBounds(c, minX, minY, maxX, maxY) ==
    [c EXCEPT !.minX = minX, !.minY = minY, !.maxX = maxX, !.maxY = maxY]

----------------------------------------------------------------------------
(* The Camera on its own.  SpecGoals makes the goal-setting calls in any   *)
(* order and number.  SpecCamera makes at most MaxGoalOps goal-setting     *)
(* calls, with update() and snapToNextTarget() at any time between them.   *)

AtGoal(c) == c.target = c.nextTarget /\ c.zoom = c.nextZoom

\* the variables the Camera specifications leave alone
notCamera == <<inputController, now, worldData, renderer, isInitialized,
               lastHoveredTile, calls, arg, result, disk>>

\* arguments of setNextTarget(x, y): inside, outside and across the bounds
TargetArgs ==
    { <<I(50), I(50)>>, <<I(-7), Q(241, 2)>>, <<Q(199, 2), I(0)>>,
      <<Q(49, 4), I(99)>> }

\* arguments of move(dx, dy): steps inside the range and jumps past a bound
MoveArgs ==
    { <<Q(-81, 2), Q(81, 2)>>, <<I(150), I(-150)>>, <<I(-150), I(30)>> }

\* arguments of setZoom(z)
ZoomArgs == { I(-3), I(0), Q(1, 2), Q(29, 20), Q(5, 2), Q(7, 2), I(4), I(9) }

\* the arguments SpecCamera uses.  move(dx, dy) as WorldController.update
\* calls it for one frame of ArrowRight and of ArrowRight with ArrowDown:
\* screenToWorldMovement(1, 0) and (1, 1), times speed
NearTargetArgs == { <<Q(101, 2), I(50)>>, <<I(-7), Q(241, 2)>> }
FrameMoveArgs == { <<Q(3, 20), Q(-3, 20)>>, <<Q(3, 10), I(0)>> }
StepZoomArgs == { I(3), I(9) }

\* history: the last call, the camera before it, the number of goal-setting
\* calls so far, and the number of update() calls made since the goal was last
\* set or reached
Rec(op, pre, ops, flight) ==
    [op |-> op, pre |-> pre, ops |-> ops, flight |-> flight]

InitCamera ==
    /\ camera = Camera_new(100, 100)
    /\ hist = Rec(<<"new">>, Camera_new(100, 100), 0, 0)
    /\ inputController = <<>>
    /\ now = 0
    /\ worldData = <<>>
    /\ renderer = <<>>
    /\ isInitialized = FALSE
    /\ lastHoveredTile = <<>>
    /\ calls = <<>>
    /\ disk = {}
    /\ arg = <<>>
    /\ result = <<>>

\* a goal-setting call; ops is the number of such calls so far
GoalOp(op, c, ops) ==
    /\ camera' = c
    /\ hist' = Rec(op, camera, ops, 0)
    /\ UNCHANGED notCamera

CamSetNextTarget(args, ops) ==
    \E a \in args :
        GoalOp(<<"setNextTarget", a>>, setNextTarget(camera, a[1], a[2]), ops)

CamMove(args, ops) ==
    \E a \in args : GoalOp(<<"move", a>>, move(camera, a[1], a[2]), ops)

CamSetZoom(args, ops) ==
    \E z \in args : GoalOp(<<"setZoom", z>>, setZoom(camera, z), ops)

CamZoomIn(ops) == GoalOp(<<"zoomIn">>, zoomIn(camera), ops)

CamZoomOut(ops) == GoalOp(<<"zoomOut">>, zoomOut(camera), ops)

CamUpdate ==
    /\ camera' = Camera_update(camera)
    /\ hist' = Rec(<<"update">>, camera, hist.ops,
                   IF AtGoal(camera) THEN 0 ELSE hist.flight + 1)
    /\ UNCHANGED notCamera

CamSnapToNextTarget ==
    /\ camera' = snapToNextTarget(camera)
    /\ hist' = Rec(<<"snapToNextTarget">>, camera, hist.ops, 0)
    /\ UNCHANGED notCamera

\* SpecGoals does not count the calls: its state space is finite without
NextGoals ==
    \/ CamSetNextTarget(TargetArgs, 0)
    \/ CamMove(MoveArgs, 0)
    \/ CamSetZoom(ZoomArgs, 0)
    \/ CamZoomIn(0)
    \/ CamZoomOut(0)

SpecGoals == InitCamera /\ [][NextGoals]_vars

NextCamera ==
    \/ hist.ops < MaxGoalOps /\ CamSetNextTarget(NearTargetArgs, hist.ops + 1)
    \/ hist.ops < MaxGoalOps /\ CamMove(FrameMoveArgs, hist.ops + 1)
    \/ hist.ops < MaxGoalOps /\ CamSetZoom(StepZoomArgs, hist.ops + 1)
    \/ hist.ops < MaxGoalOps /\ CamZoomIn(hist.ops + 1)
    \/ hist.ops < MaxGoalOps /\ CamZoomOut(hist.ops + 1)
    \/ CamUpdate
    \/ CamSnapToNextTarget

SpecCamera == InitCamera /\ [][NextCamera]_vars

----------------------------------------------------------------------------
(* Claims about the Camera.                                                *)

\* C1: with minZoom = 1 and maxZoom = 4, after any sequence of setZoom(z),
\* zoomIn() and zoomOut() calls nextZoom is an integer between 1 and 4.
C1_NextZoomInRange ==
    /\ camera.minZoom = I(1)
    /\ camera.maxZoom = I(4)
    /\ IsInt(camera.nextZoom)
    /\ NLe(I(1), camera.nextZoom)
    /\ NLe(camera.nextZoom, I(4))

\* a zoomIn() at the top of the range and a setZoom below it have been made
C1_Witness ==
    \/ /\ hist.op = <<"zoomIn">>
       /\ hist.pre.nextZoom = I(4)
       /\ camera.nextZoom = I(4)
    \/ /\ hist.op = <<"setZoom", I(-3)>>
       /\ camera.nextZoom = I(1)

InRange0to99(v) == NLe(I(0), v) /\ NLe(v, I(99))

Clamp0to99(v) == IF NLt(v, I(0)) THEN I(0) ELSE IF NLt(I(99), v) THEN I(99) ELSE v

\* C2: with bounds [0,99] on both axes, after any sequence of move and
\* setNextTarget calls nextTarget.x and nextTarget.y lie in [0,99], and each
\* move ends at the clamp of (the stored goal before it + its delta).
C2_NextTargetClamped ==
    /\ InRange0to99(camera.nextTarget.x)
    /\ InRange0to99(camera.nextTarget.y)
    /\ hist.op[1] = "move" =>
          /\ camera.nextTarget.x =
                Clamp0to99(NAdd(hist.pre.nextTarget.x, hist.op[2][1]))
          /\ camera.nextTarget.y =
                Clamp0to99(NAdd(hist.pre.nextTarget.y, hist.op[2][2]))

\* a move back from the bound: x was left on 99 and y on 0 by an earlier call,
\* and move(-40.5, 40.5) ends at (58.5, 40.5)
C2_Witness ==
    /\ hist.op = <<"move", <<Q(-81, 2), Q(81, 2)>> >>
    /\ hist.pre.nextTarget = Coord(I(99), I(0))
    /\ camera.nextTarget = Coord(Q(117, 2), Q(81, 2))

DistX(c) == NAbs(NSub(c.nextTarget.x, c.target.x))
DistY(c) == NAbs(NSub(c.nextTarget.y, c.target.y))
DistZ(c) == NAbs(NSub(c.nextZoom, c.zoom))

\* d1 is 0 if d was, and smaller than d otherwise
Contracts(d, d1) == IF d = I(0) THEN d1 = I(0) ELSE NLt(d1, d)

UpdateContracts ==
    hist'.op = <<"update">> =>
        /\ Contracts(DistX(camera), DistX(camera'))
        /\ Contracts(DistY(camera), DistY(camera'))
        /\ Contracts(DistZ(camera), DistZ(camera'))

\* C3: every update() strictly decreases each non-zero distance to the goal
\* and keeps a zero distance zero; and a camera that is not exactly on its
\* goal has had fewer than SettleFrames update() calls since the goal was last
\* set: finitely many calls bring target and zoom exactly onto the goal,
\* where further calls keep them.
C3_UpdateConverges ==
    /\ [][UpdateContracts]_vars
    /\ [](~AtGoal(camera) => hist.flight < SettleFrames)

\* an update() has just brought the camera exactly onto its goal
C3_Witness ==
    /\ hist.op = <<"update">>
    /\ hist.flight > 1
    /\ ~AtGoal(hist.pre)
    /\ AtGoal(camera)

----------------------------------------------------------------------------
(* The pure functions of IsometricUtils: SpecPure draws one input and      *)
(* applies the function to it.                                             *)

\* heights of a tile: small ones, and ones around the depth multiplier
Heights == { 0, 1, 999, 1000, 1001, 2500 }

TileCoords == -1..MaxTileCoord

DepthInputs ==
    { [fn |-> "calculateDepth", a |-> a, ha |-> ha, b |-> b, hb |-> hb] :
        a \in TileCoords \X TileCoords, ha \in Heights,
        b \in TileCoords \X TileCoords, hb \in Heights }

Halves == { Q(k, 2) : k \in (-2 * MaxWorld)..(2 * MaxWorld) }

RoundTripInputs ==
    { [fn |-> "roundTrip", w |-> Coord(x, y)] : x \in Halves, y \in Halves }

InitPure ==
    /\ arg \in DepthInputs \cup RoundTripInputs
    /\ result = <<>>
    /\ camera = <<>>
    /\ hist = <<>>
    /\ inputController = <<>>
    /\ now = 0
    /\ worldData = <<>>
    /\ renderer = <<>>
    /\ isInitialized = FALSE
    /\ lastHoveredTile = <<>>
    /\ calls = <<>>
    /\ disk = {}

notPure == <<camera, hist, inputController, now, worldData, renderer,
             isInitialized, lastHoveredTile, calls, disk>>

\* the depth keys of two tiles, as TileSprite.updatePosition computes them
CallCalculateDepth ==
    /\ arg.fn = "calculateDepth"
    /\ result = <<>>
    /\ result' =
         [ a |-> calculateDepth(Coord(I(arg.a[1]), I(arg.a[2])), I(arg.ha)),
           b |-> calculateDepth(Coord(I(arg.b[1]), I(arg.b[2])), I(arg.hb)) ]
    /\ UNCHANGED <<arg, notPure>>

CallRoundTrip ==
    /\ arg.fn = "roundTrip"
    /\ result = <<>>
    /\ result' = [ screen |-> worldToScreen(arg.w),
                   world  |-> screenToWorld(worldToScreen(arg.w)) ]
    /\ UNCHANGED <<arg, notPure>>

NextPure == CallCalculateDepth \/ CallRoundTrip

SpecPure == InitPure /\ [][NextPure]_vars

DepthDone == arg.fn = "calculateDepth" /\ result # <<>>

SumA == arg.a[1] + arg.a[2]
SumB == arg.b[1] + arg.b[2]

\* C8 as claimed: a tile with the larger coordinate sum gets the larger depth
\* key, whatever the two heights are.
C8_LargerSumOnTop ==
    (DepthDone /\ SumA > SumB) => NLt(result.b, result.a)

\* C8 as amended: a tile with the larger coordinate sum gets the larger depth
\* key when both heights are below the depth multiplier (0..999).
C8_LargerSumOnTopBelowMultiplier ==
    ( /\ DepthDone
      /\ SumA > SumB
      /\ arg.ha < DepthMultiplier
      /\ arg.hb < DepthMultiplier ) => NLt(result.b, result.a)

\* the closest case: sums one apart, the lower tile 999 high, the upper flat
C8_Witness ==
    /\ DepthDone
    /\ SumA = SumB + 1
    /\ arg.ha = 0
    /\ arg.hb = 999
    /\ NLt(result.b, result.a)

RoundTripDone == arg.fn = "roundTrip" /\ result # <<>>

\* C9: screenToWorld(worldToScreen(w)) = w for every integer and half-integer
\* pair w, negative values included.
C9_RoundTrip == RoundTripDone => result.world = arg.w

\* the round trip of (-2.5, 1.5), through the screen point (-64, -8)
C9_Witness ==
    /\ RoundTripDone
    /\ arg.w = Coord(Q(-5, 2), Q(3, 2))
    /\ result.screen = Coord(I(-64), I(-8))
    /\ result.world = arg.w

----------------------------------------------------------------------------
(* WorldData: the tile store.  The Map is keyed by "x,y"; a key is the     *)
(* pair <<x, y>>.  A Tile is an object, and one object can be filed under  *)
(* several keys, so the map is held as the set of its tile objects, each   *)
(* with the set of keys it is filed under (never empty for a stored tile). *)

Tile(type, northCornerHeight, x, y) ==
    [type |-> type, northCornerHeight |-> northCornerHeight, x |-> x, y |-> y,
     keys |-> {}]

WorldData_new(width, height) ==
    [tiles |-> {}, width |-> width, height |-> height]

\* the keys of the map
TileKeys(wd) == UNION { t.keys : t \in wd.tiles }

hasTile(wd, x, y) == <<x, y>> \in TileKeys(wd)

getTile(wd, x, y) == CHOOSE t \in wd.tiles : <<x, y>> \in t.keys

\* tiles.set(key, tile): the key now leads to this object and to no other
MapSet(tiles, key, tile) ==
    { t \in { [u EXCEPT !.keys = u.keys \ {key}] : u \in tiles } :
        t.keys # {} }
      \cup { [tile EXCEPT !.keys = tile.keys \cup {key}] }

\* tile is a fresh object (keys = {}) or one of wd.tiles
setTile(wd, x, y, tile) ==
    [wd EXCEPT !.tiles =
        MapSet(wd.tiles \ {tile}, <<x, y>>, [tile EXCEPT !.x = x, !.y = y])]

\* Math.random() returns a number in [0, 1)
Randoms == { I(0), Q(1, 4), Q(1, 2), Q(999, 1000) }

NInt(x) == IF x.neg THEN 0 - x.m[1] ELSE x.m[1]

\* Math.floor(Math.random() * 4)
RandomType(r) == NInt(NFloor(NMul(r, I(4))))

Grid(wd) == (0..(wd.width - 1)) \X (0..(wd.height - 1))

RECURSIVE FillGrid(_, _, _)
\* the two loops, y outside and x inside: step i is the cell
\* (i % width, i \div width); random[c] is what Math.random() returns for c
FillGrid(wd, i, random) ==
    IF i = wd.width * wd.height THEN wd
    ELSE LET x == i % wd.width
             y == i \div wd.width
         IN FillGrid(setTile(wd, x, y,
                             Tile(RandomType(random[<<x, y>>]), 0, x, y)),
                     i + 1, random)

generateRandom_noClear(wd, random) == FillGrid(wd, 0, random)

generateRandom(wd, random) ==
    FillGrid([wd EXCEPT !.tiles = {}], 0, random)

getCornerHeight_eastWestSwapped(wd, x, y, corner) ==
    LET north(tx, ty) == IF hasTile(wd, tx, ty)
                         THEN getTile(wd, tx, ty).northCornerHeight ELSE 0
    IN CASE corner = 0 -> north(x, y)
         [] corner = 1 -> north(x - 1, y)
         [] corner = 2 -> north(x, y + 1)
         [] corner = 3 -> north(x + 1, y)
         [] OTHER -> 0

getCornerHeight(wd, x, y, corner) ==
    LET north(tx, ty) == IF hasTile(wd, tx, ty)
                         THEN getTile(wd, tx, ty).northCornerHeight ELSE 0
    IN CASE corner = 0 -> north(x, y)
         [] corner = 1 -> north(x + 1, y)
         [] corner = 2 -> north(x, y + 1)
         [] corner = 3 -> north(x - 1, y)
         [] OTHER -> 0

----------------------------------------------------------------------------
(* SpecStore: one WorldData of a small size, and the calls setTile and     *)
(* generateRandom on it.                                                   *)

notStore == <<camera, inputController, now, renderer, isInitialized,
              lastHoveredTile, calls, arg, result, disk>>

StoreRec(op, pre, ops) == [op |-> op, pre |-> pre, ops |-> ops]

\* width and height given to the constructor
WorldSizes == { <<1, 1>>, <<2, 1>>, <<1, 2>>, <<3, 1>>, <<2, 2>> }

InitStore ==
    /\ \E s \in WorldSizes : worldData = WorldData_new(s[1], s[2])
    /\ hist = StoreRec(<<"new">>, {}, 0)
    /\ camera = <<>>
    /\ inputController = <<>>
    /\ now = 0
    /\ renderer = <<>>
    /\ isInitialized = FALSE
    /\ lastHoveredTile = <<>>
    /\ calls = <<>>
    /\ disk = {}
    /\ arg = <<>>
    /\ result = <<>>

\* coordinates on the grid, beside it and beyond its far corner
SetTileCoords(wd) ==
    { <<0, 0>>, <<-1, 0>>, <<wd.width, wd.height>> }

\* tile literals a caller passes: a tile type of the sheet, and one outside it
NewTiles == { Tile(1, 0, 0, 0), Tile(7, 3, 0, 0) }

\* hist.pre keeps the keys the map had before the call
StoreOp(op, wd) ==
    /\ hist.ops < MaxStoreOps
    /\ worldData' = wd
    /\ hist' = StoreRec(op, TileKeys(worldData), hist.ops + 1)
    /\ UNCHANGED notStore

SetTileNew ==
    \E c \in SetTileCoords(worldData), t \in NewTiles :
        StoreOp(<<"setTile", c, t>>, setTile(worldData, c[1], c[2], t))

\* the tile read with getTile(0, 0), filed again under another coordinate
SetTileStored ==
    /\ hasTile(worldData, 0, 0)
    /\ \E c \in SetTileCoords(worldData) :
         LET t == getTile(worldData, 0, 0)
         IN StoreOp(<<"setTile", c, t>>, setTile(worldData, c[1], c[2], t))

GenerateRandom ==
    \E random \in [Grid(worldData) -> Randoms] :
        StoreOp(<<"generateRandom">>, generateRandom(worldData, random))

NextStore == SetTileNew \/ SetTileStored \/ GenerateRandom

SpecStore == InitStore /\ [][NextStore]_vars

\* C7: after generateRandom the store holds exactly width * height tiles, one
\* under each key of the grid and none under any other key, each stamped with
\* its own coordinate, of type 0..3 and of height 0.
C7_GenerateFillsGrid ==
    hist.op = <<"generateRandom">> =>
        /\ TileKeys(worldData) = Grid(worldData)
        /\ Cardinality(worldData.tiles) = worldData.width * worldData.height
        /\ \A c \in Grid(worldData) :
             LET t == getTile(worldData, c[1], c[2])
             IN /\ t.x = c[1] /\ t.y = c[2]
                /\ t.type \in 0..3
                /\ t.northCornerHeight = 0

\* a 2 x 2 store that held one tile, beyond its far corner, is regenerated
C7_Witness ==
    /\ hist.op = <<"generateRandom">>
    /\ worldData.width = 2 /\ worldData.height = 2
    /\ hist.pre = { <<2, 2>> }
    /\ Cardinality(worldData.tiles) = 4
    /\ getTile(worldData, 1, 1).type = 3

----------------------------------------------------------------------------
(* IsometricRenderer.  A TileSprite is an object: sprites holds every      *)
(* TileSprite the renderer has constructed, in order of construction, and  *)
(* a sprite is referred to by its index there (0 is null).  children is    *)
(* the display list of the Container.                                      *)

getTileUVs(tileType, tilesPerRow) ==
    [x |-> (tileType % tilesPerRow) * TILE_WIDTH,
     y |-> (tileType \div tilesPerRow) * TILE_HEIGHT,
     width |-> TILE_WIDTH, height |-> TILE_HEIGHT]

IsometricRenderer_new ==
    [tileTextures |-> <<>>, tileSprites |-> <<>>, baseTexture |-> "null",
     hoveredTile |-> 0, sprites |-> <<>>, children |-> {},
     x |-> I(0), y |-> I(0), scale |-> I(1)]

createTileTextures(r) ==
    IF r.baseTexture = "null" THEN r
    ELSE [r EXCEPT !.tileTextures =
            [i \in 1..4 |-> [source |-> r.baseTexture,
                             frame |-> getTileUVs(i - 1, 4)]]]

Renderer_initialize(r, baseTexture) ==
    createTileTextures([r EXCEPT !.baseTexture = baseTexture])

\* TileSprite.updatePosition
updatePosition(sp) ==
    LET screenPos == worldToScreen(sp.world)
    IN [sp EXCEPT
          !.x = screenPos.x,
          !.y = NSub(screenPos.y, NMul(sp.northCornerHeight, I(TILE_DEPTH))),
          !.zIndex = calculateDepth(sp.world, sp.northCornerHeight)]

\* the TileSprite constructor; tile is kept as the record it was then
TileSprite_new(texture, tile, northHeight) ==
    updatePosition(
        [texture |-> texture,
         tile |-> [type |-> tile.type, x |-> tile.x, y |-> tile.y,
                   northCornerHeight |-> tile.northCornerHeight],
         world |-> Coord(I(tile.x), I(tile.y)),
         northCornerHeight |-> I(northHeight),
         isHovered |-> FALSE, filters |-> <<>>,
         x |-> I(0), y |-> I(0), zIndex |-> I(0), destroyed |-> FALSE])

\* TileSprite.setHovered
setHovered(sp, hovered) ==
    IF sp.isHovered = hovered THEN sp
    ELSE [sp EXCEPT !.isHovered = hovered,
                    !.filters = IF hovered THEN <<"darkenFilter">> ELSE <<>>]

\* Map.delete
MapDelete(f, key) == [k \in DOMAIN f \ {key} |-> f[k]]

\* Map.set
MapPut(f, key, v) == [k \in DOMAIN f \cup {key} |-> IF k = key THEN v ELSE f[k]]

removeTile(r, x, y) ==
    LET key == <<x, y>>
    IN IF key \notin DOMAIN r.tileSprites THEN r
       ELSE LET sprite == r.tileSprites[key]
            IN [r EXCEPT !.children = r.children \ {sprite},
                         !.tileSprites = MapDelete(r.tileSprites, key),
                         !.sprites[sprite].destroyed = TRUE]

\* tileTextures[type] is a texture (not undefined)
hasTexture(r, type) == type + 1 \in DOMAIN r.tileTextures

renderTile_noRemove(r, tile, northCornerHeight) ==
    LET key == <<tile.x, tile.y>>
    IN IF ~hasTexture(r, tile.type) THEN r
       ELSE LET sprite == Len(r.sprites) + 1
            IN [r EXCEPT
                  !.sprites = Append(r.sprites,
                      TileSprite_new(r.tileTextures[tile.type + 1], tile,
                                     northCornerHeight)),
                  !.tileSprites = MapPut(r.tileSprites, key, sprite),
                  !.children = r.children \cup {sprite}]

renderTile(r, tile, northCornerHeight) ==
    LET key == <<tile.x, tile.y>>
        r1 == removeTile(r, tile.x, tile.y)
    IN IF ~hasTexture(r1, tile.type) THEN r1
       ELSE LET sprite == Len(r1.sprites) + 1
            IN [r1 EXCEPT
                  !.sprites = Append(r1.sprites,
                      TileSprite_new(r1.tileTextures[tile.type + 1], tile,
                                     northCornerHeight)),
                  !.tileSprites = MapPut(r1.tileSprites, key, sprite),
                  !.children = r1.children \cup {sprite}]

Registered(r) == { r.tileSprites[k] : k \in DOMAIN r.tileSprites }

Renderer_clear(r) ==
    [r EXCEPT !.children = r.children \ Registered(r),
              !.sprites = [i \in DOMAIN r.sprites |->
                              IF i \in Registered(r)
                              THEN [r.sprites[i] EXCEPT !.destroyed = TRUE]
                              ELSE r.sprites[i]],
              !.tileSprites = <<>>]

setTileHover(r, worldX, worldY, hovered) ==
    LET key == <<NInt(NFloor(worldX)), NInt(NFloor(worldY))>>
    IN IF key \notin DOMAIN r.tileSprites THEN r
       ELSE LET sprite == r.tileSprites[key]
            IN [r EXCEPT
                  !.sprites[sprite] = setHovered(r.sprites[sprite], hovered),
                  !.hoveredTile = IF hovered THEN sprite
                                  ELSE IF r.hoveredTile = sprite THEN 0
                                  ELSE r.hoveredTile]

clearAllHover(r) ==
    IF r.hoveredTile = 0 THEN r
    ELSE [r EXCEPT
            !.sprites[r.hoveredTile] = setHovered(r.sprites[r.hoveredTile], FALSE),
            !.hoveredTile = 0]

----------------------------------------------------------------------------
(* SpecRenderer: one IsometricRenderer and the calls of its public methods *)
(* in any order, initialize included or not.                               *)

notRenderer == <<camera, inputController, now, worldData, isInitialized,
                 lastHoveredTile, calls, arg, result, disk>>

InitRenderer ==
    /\ renderer = IsometricRenderer_new
    /\ hist = StoreRec(<<"new">>, IsometricRenderer_new, 0)
    /\ camera = <<>>
    /\ inputController = <<>>
    /\ now = 0
    /\ worldData = <<>>
    /\ isInitialized = FALSE
    /\ lastHoveredTile = <<>>
    /\ calls = <<>>
    /\ disk = {}
    /\ arg = <<>>
    /\ result = <<>>

\* tile and northCornerHeight given to renderTile: two coordinates, flat and
\* raised, and a tile whose type is outside the sheet
RenderTileArgs ==
    { <<Tile(1, 0, 0, 0), 0>>, <<Tile(2, 2, 0, 0), 2>>,
      <<Tile(3, 0, 1, 0), 0>>, <<Tile(7, 0, 0, 0), 0>> }

RendererCoords == { <<0, 0>>, <<1, 0>> }

HoverArgs == { <<Q(1, 2), I(0), TRUE>>, <<I(0), I(0), FALSE>>,
               <<I(1), Q(1, 4), TRUE>> }

\* hist.pre is the renderer before the call
RendererOp(op, r) ==
    /\ hist.ops < MaxRendererOps
    /\ renderer' = r
    /\ hist' = StoreRec(op, renderer, hist.ops + 1)
    /\ UNCHANGED notRenderer

RInitialize ==
    RendererOp(<<"initialize">>, Renderer_initialize(renderer, "empty.png"))

RRenderTile ==
    \E a \in RenderTileArgs :
        RendererOp(<<"renderTile", a[1], a[2]>>, renderTile(renderer, a[1], a[2]))

RRemoveTile ==
    \E c \in RendererCoords :
        RendererOp(<<"removeTile", c>>, removeTile(renderer, c[1], c[2]))

RClear == RendererOp(<<"clear">>, Renderer_clear(renderer))

RSetTileHover ==
    \E a \in HoverArgs :
        RendererOp(<<"setTileHover", a>>, setTileHover(renderer, a[1], a[2], a[3]))

RClearAllHover == RendererOp(<<"clearAllHover">>, clearAllHover(renderer))

NextRenderer ==
    \/ RInitialize
    \/ RRenderTile
    \/ RRemoveTile
    \/ RClear
    \/ RSetTileHover
    \/ RClearAllHover

SpecRenderer == InitRenderer /\ [][NextRenderer]_vars

\* the key renderTile was last called for
RenderedKey == <<hist.op[2].x, hist.op[2].y>>

\* the sprite that was under that key before the call is destroyed and off
\* the display list
OldSpriteGone ==
    RenderedKey \in DOMAIN hist.pre.tileSprites =>
        LET old == hist.pre.tileSprites[RenderedKey]
        IN /\ renderer.sprites[old].destroyed
           /\ old \notin renderer.children
           /\ old \notin Registered(renderer)

\* the sprites under other keys are the same objects, unchanged and displayed
OtherSpritesUntouched ==
    /\ DOMAIN renderer.tileSprites \ {RenderedKey}
         = DOMAIN hist.pre.tileSprites \ {RenderedKey}
    /\ \A k \in DOMAIN hist.pre.tileSprites \ {RenderedKey} :
         LET sp == hist.pre.tileSprites[k]
         IN /\ renderer.tileSprites[k] = sp
            /\ renderer.sprites[sp] = hist.pre.sprites[sp]
            /\ (sp \in renderer.children) = (sp \in hist.pre.children)

\* the key leads to one sprite, constructed by this call from its tile and
\* height, and displayed
NewSpriteRegistered ==
    /\ RenderedKey \in DOMAIN renderer.tileSprites
    /\ LET new == renderer.tileSprites[RenderedKey]
       IN /\ new \notin DOMAIN hist.pre.sprites
          /\ new \in renderer.children
          /\ Cardinality({k \in DOMAIN renderer.tileSprites :
                            renderer.tileSprites[k] = new}) = 1
          /\ renderer.sprites[new] =
               TileSprite_new(hist.pre.tileTextures[hist.op[2].type + 1],
                              hist.op[2], hist.op[3])

\* C10 as claimed: after renderTile(tile, h) the key of the tile leads to
\* exactly one sprite, newly made from tile and h; the sprite that was there
\* is destroyed and off the display list; other sprites are untouched.
C10_RenderTileReplaces ==
    hist.op[1] = "renderTile" =>
        /\ NewSpriteRegistered
        /\ OldSpriteGone
        /\ OtherSpritesUntouched

\* C10 as amended: the old sprite is always destroyed and taken off the
\* display list and other sprites are untouched; when the renderer holds a
\* texture for tile.type the key leads to exactly one sprite, newly made from
\* tile and h; when it holds none, no sprite is made and the key leads to none.
C10_RenderTileReplacesIfTextured ==
    hist.op[1] = "renderTile" =>
        /\ OldSpriteGone
        /\ OtherSpritesUntouched
        /\ IF hasTexture(hist.pre, hist.op[2].type)
           THEN NewSpriteRegistered
           ELSE /\ RenderedKey \notin DOMAIN renderer.tileSprites
                /\ renderer.sprites =
                     [i \in DOMAIN hist.pre.sprites |->
                        IF i \in Registered(hist.pre) \ Registered(renderer)
                        THEN [hist.pre.sprites[i] EXCEPT !.destroyed = TRUE]
                        ELSE hist.pre.sprites[i]]

\* a raised tile is rendered over the flat sprite at (0,0) while (1,0) holds
\* another sprite
C10_Witness ==
    /\ hist.op = <<"renderTile", Tile(2, 2, 0, 0), 2>>
    /\ DOMAIN hist.pre.tileSprites = { <<0, 0>>, <<1, 0>> }
    /\ renderer.tileSprites[<<0, 0>>] = 3
    /\ renderer.sprites[3].zIndex = I(2)
    /\ renderer.sprites[3].y = I(-16)
    /\ renderer.sprites[hist.pre.tileSprites[<<0, 0>>]].destroyed
    /\ Cardinality(renderer.children) = 2

----------------------------------------------------------------------------
(* WorldController: initialize and generateRandomWorld.  initialize is     *)
(* async: a call runs to its first await, and goes on when the awaited     *)
(* promise settles.  calls[i] is where the i-th initialize() call stands:  *)
(*   "awaitLoad"      suspended at  await Assets.load("empty.png")         *)
(*   "awaitRenderer"  suspended at  await this.renderer.initialize(texture)*)
(*   "done"           returned (the promise is fulfilled)                  *)
(*   "rejected"       the load failed and the promise is rejected          *)

\* the keys of the store in the order y, then x
RECURSIVE KeysInOrder(_)
KeysInOrder(keys) ==
    IF keys = {} THEN <<>>
    ELSE LET k == CHOOSE k \in keys :
                    \A q \in keys : k[2] < q[2] \/ (k[2] = q[2] /\ k[1] <= q[1])
         IN <<k>> \o KeysInOrder(keys \ {k})

RECURSIVE RenderEach(_, _, _)
RenderEach(r, wd, keys) ==
    IF keys = <<>> THEN r
    ELSE LET tile == getTile(wd, Head(keys)[1], Head(keys)[2])
         IN RenderEach(renderTile(r, tile, tile.northCornerHeight), wd, Tail(keys))

\* the tiles are visited in the order of their insertion into the Map, which
\* after generateRandom is y, then x
renderWorld(r, wd) == RenderEach(r, wd, KeysInOrder(TileKeys(wd)))

generateRandomWorld_noGuard(initialized, wd, r, random) ==
    LET wd1 == generateRandom(wd, random)
    IN [worldData |-> wd1, renderer |-> renderWorld(Renderer_clear(r), wd1)]

generateRandomWorld(initialized, wd, r, random) ==
    IF ~initialized THEN [worldData |-> wd, renderer |-> r]
    ELSE LET wd1 == generateRandom(wd, random)
         IN [worldData |-> wd1, renderer |-> renderWorld(Renderer_clear(r), wd1)]

----------------------------------------------------------------------------
(* One WorldController.  SpecInit: its initialize() calls, overlapping in  *)
(* any way.  SpecWorld: one initialize() call, as MainScreen makes it,     *)
(* interleaved with generateRandomWorld() and setTile on getWorldData().   *)

notWorld ==
    <<camera, inputController, now, lastHoveredTile, arg, result, disk>>

WorldRec(op, pre, ops, loads, inits) ==
    [op |-> op, pre |-> pre, ops |-> ops, loads |-> loads, inits |-> inits]

\* the controller's state a call is compared against
WorldPre ==
    [worldData |-> worldData, renderer |-> renderer,
     isInitialized |-> isInitialized, calls |-> calls]

ControllerSizes == { <<1, 1>>, <<2, 1>>, <<1, 2>> }

InitWorld ==
    /\ \E s \in ControllerSizes : worldData = WorldData_new(s[1], s[2])
    /\ renderer = IsometricRenderer_new
    /\ isInitialized = FALSE
    /\ calls = <<>>
    /\ disk = {}
    /\ hist = WorldRec(<<"new">>, <<>>, 0, 0, 0)
    /\ camera = <<>>
    /\ inputController = <<>>
    /\ now = 0
    /\ lastHoveredTile = <<>>
    /\ arg = <<>>
    /\ result = <<>>

\* initialize() is called: it returns at once when the flag is set, and
\* otherwise starts the load and suspends
CallInitialize(maxCalls) ==
    /\ Len(calls) < maxCalls
    /\ IF isInitialized
       THEN /\ calls' = Append(calls, "done")
            /\ hist' = [hist EXCEPT !.op = <<"initialize">>, !.pre = WorldPre]
       ELSE /\ calls' = Append(calls, "awaitLoad")
            /\ hist' = [hist EXCEPT !.op = <<"initialize">>, !.pre = WorldPre,
                                    !.loads = hist.loads + 1]
    /\ UNCHANGED <<worldData, renderer, isInitialized, notWorld>>

\* the load of call i resolves: renderer.initialize(texture) runs, and the
\* call suspends on its promise
LoadResolves(i) ==
    /\ calls[i] = "awaitLoad"
    /\ renderer' = Renderer_initialize(renderer, "empty.png")
    /\ calls' = [calls EXCEPT ![i] = "awaitRenderer"]
    /\ hist' = [hist EXCEPT !.op = <<"loadResolves", i>>, !.pre = WorldPre,
                            !.inits = hist.inits + 1]
    /\ UNCHANGED <<worldData, isInitialized, notWorld>>

\* the load of call i fails: initialize() rejects
LoadRejects(i) ==
    /\ calls[i] = "awaitLoad"
    /\ calls' = [calls EXCEPT ![i] = "rejected"]
    /\ hist' = [hist EXCEPT !.op = <<"loadRejects", i>>, !.pre = WorldPre]
    /\ UNCHANGED <<worldData, renderer, isInitialized, notWorld>>

\* call i resumes after renderer.initialize and sets the flag
RendererResolves(i) ==
    /\ calls[i] = "awaitRenderer"
    /\ isInitialized' = TRUE
    /\ calls' = [calls EXCEPT ![i] = "done"]
    /\ hist' = [hist EXCEPT !.op = <<"rendererResolves", i>>, !.pre = WorldPre]
    /\ UNCHANGED <<worldData, renderer, notWorld>>

GenerateRandomWorld ==
    /\ hist.ops < MaxWorldOps
    /\ \E random \in [Grid(worldData) -> Randoms] :
         LET after == generateRandomWorld(isInitialized, worldData, renderer,
                                          random)
         IN /\ worldData' = after.worldData
            /\ renderer' = after.renderer
    /\ hist' = [hist EXCEPT !.op = <<"generateRandomWorld">>, !.pre = WorldPre,
                            !.ops = hist.ops + 1]
    /\ UNCHANGED <<isInitialized, calls, notWorld>>

\* tiles a caller files through getWorldData(): one on the grid, one off it
WorldSetTileArgs(wd) ==
    { <<<<0, 0>>, Tile(1, 0, 0, 0)>>,
      <<<<wd.width, wd.height>>, Tile(7, 3, 0, 0)>> }

\* getWorldData().setTile(x, y, tile)
WorldSetTile ==
    /\ hist.ops < MaxWorldOps
    /\ \E a \in WorldSetTileArgs(worldData) :
         LET c == a[1]
             t == a[2]
         IN
         /\ worldData' = setTile(worldData, c[1], c[2], t)
         /\ hist' = [hist EXCEPT !.op = <<"setTile", c, t>>, !.pre = WorldPre,
                                 !.ops = hist.ops + 1]
    /\ UNCHANGED <<renderer, isInitialized, calls, notWorld>>

NextInit ==
    \/ CallInitialize(MaxInitCalls)
    \/ \E i \in DOMAIN calls : LoadResolves(i)
    \/ \E i \in DOMAIN calls : LoadRejects(i)
    \/ \E i \in DOMAIN calls : RendererResolves(i)

SpecInit == InitWorld /\ [][NextInit]_vars

NextWorld ==
    \/ CallInitialize(1)
    \/ \E i \in DOMAIN calls : LoadResolves(i)
    \/ \E i \in DOMAIN calls : LoadRejects(i)
    \/ \E i \in DOMAIN calls : RendererResolves(i)
    \/ GenerateRandomWorld
    \/ WorldSetTile

SpecWorld == InitWorld /\ [][NextWorld]_vars

\* C5: however many initialize() calls are made and however they overlap,
\* Assets.load and renderer.initialize are each performed at most once.
C5_InitializeOnce == hist.loads <= 1 /\ hist.inits <= 1

\* every tile of the regenerated store has its own new, displayed sprite
EveryTileRendered ==
    /\ DOMAIN renderer.tileSprites = TileKeys(worldData)
    /\ renderer.children = Registered(renderer)
    /\ \A k \in TileKeys(worldData) :
         LET tile == getTile(worldData, k[1], k[2])
             sprite == renderer.tileSprites[k]
         IN /\ sprite \notin DOMAIN hist.pre.renderer.sprites
            /\ renderer.sprites[sprite] =
                 TileSprite_new(renderer.tileTextures[tile.type + 1], tile, 0)

\* every sprite the renderer held before is destroyed and off the display
RendererCleared ==
    \A sprite \in Registered(hist.pre.renderer) :
        /\ renderer.sprites[sprite].destroyed
        /\ sprite \notin renderer.children

\* C6: generateRandomWorld() on a controller that is not initialized leaves
\* the store and the renderer as they were; on an initialized one it
\* regenerates the grid, clears the renderer and renders every tile.
C6_GenerateNeedsInitialized ==
    hist.op = <<"generateRandomWorld">> =>
        IF ~hist.pre.isInitialized
        THEN /\ worldData = hist.pre.worldData
             /\ renderer = hist.pre.renderer
        ELSE /\ TileKeys(worldData) = Grid(worldData)
             /\ RendererCleared
             /\ EveryTileRendered

\* generateRandomWorld() is called while initialize() is suspended after
\* renderer.initialize, on a store that holds a tile
C6_Witness ==
    /\ hist.op = <<"generateRandomWorld">>
    /\ calls = <<"awaitRenderer">>
    /\ ~isInitialized
    /\ Len(renderer.tileTextures) = 4
    /\ TileKeys(worldData) = { <<0, 0>> }
    /\ DOMAIN renderer.tileSprites = {}

----------------------------------------------------------------------------
(* InputController.                                                        *)

InputController_new ==
    [keys |-> {}, lastZoomTime |-> 0, zoomCooldown |-> 150,
     wheelZoomQueue |-> 0]

keydownHandler(ic, code) == [ic EXCEPT !.keys = ic.keys \cup {code}]

keyupHandler(ic, code) == [ic EXCEPT !.keys = ic.keys \ {code}]

\* Math.sign of an integer deltaY
Sign(n) == IF n < 0 THEN -1 ELSE IF n = 0 THEN 0 ELSE 1

wheelHandler(ic, deltaY) ==
    [ic EXCEPT !.wheelZoomQueue = ic.wheelZoomQueue + Sign(deltaY)]

blurHandler_keepsKeys(ic) == ic

blurHandler(ic) == [ic EXCEPT !.keys = {}]

isKeyPressed(ic, keyCode) == keyCode \in ic.keys

getMovementInput(ic) ==
    LET left  == isKeyPressed(ic, "ArrowLeft") \/ isKeyPressed(ic, "KeyA")
        right == isKeyPressed(ic, "ArrowRight") \/ isKeyPressed(ic, "KeyD")
        up    == isKeyPressed(ic, "ArrowUp") \/ isKeyPressed(ic, "KeyW")
        down  == isKeyPressed(ic, "ArrowDown") \/ isKeyPressed(ic, "KeyS")
    IN [x |-> (IF right THEN 1 ELSE 0) - (IF left THEN 1 ELSE 0),
        y |-> (IF down THEN 1 ELSE 0) - (IF up THEN 1 ELSE 0)]

getZoomInput_cooldownInclusive(ic, t) ==
    LET canZoom == t - ic.lastZoomTime >= ic.zoomCooldown
        none == [zoomIn |-> FALSE, zoomOut |-> FALSE, inputController |-> ic]
    IN IF ~canZoom THEN none
       ELSE IF isKeyPressed(ic, "Equal")
       THEN [zoomIn |-> TRUE, zoomOut |-> FALSE,
             inputController |-> [ic EXCEPT !.lastZoomTime = t]]
       ELSE IF isKeyPressed(ic, "Minus")
       THEN [zoomIn |-> FALSE, zoomOut |-> TRUE,
             inputController |-> [ic EXCEPT !.lastZoomTime = t]]
       ELSE IF ic.wheelZoomQueue # 0
       THEN [zoomIn |-> ~(ic.wheelZoomQueue > 0),
             zoomOut |-> ic.wheelZoomQueue > 0,
             inputController |-> [ic EXCEPT !.wheelZoomQueue = 0,
                                            !.lastZoomTime = t]]
       ELSE none

getZoomInput_minusFirst(ic, t) ==
    LET canZoom == t - ic.lastZoomTime > ic.zoomCooldown
        none == [zoomIn |-> FALSE, zoomOut |-> FALSE, inputController |-> ic]
    IN IF ~canZoom THEN none
       ELSE IF isKeyPressed(ic, "Minus")
       THEN [zoomIn |-> FALSE, zoomOut |-> TRUE,
             inputController |-> [ic EXCEPT !.lastZoomTime = t]]
       ELSE IF isKeyPressed(ic, "Equal")
       THEN [zoomIn |-> TRUE, zoomOut |-> FALSE,
             inputController |-> [ic EXCEPT !.lastZoomTime = t]]
       ELSE IF ic.wheelZoomQueue # 0
       THEN [zoomIn |-> ~(ic.wheelZoomQueue > 0),
             zoomOut |-> ic.wheelZoomQueue > 0,
             inputController |-> [ic EXCEPT !.wheelZoomQueue = 0,
                                            !.lastZoomTime = t]]
       ELSE none

getZoomInput_oneStepOffQueue(ic, t) ==
    LET canZoom == t - ic.lastZoomTime > ic.zoomCooldown
        none == [zoomIn |-> FALSE, zoomOut |-> FALSE, inputController |-> ic]
    IN IF ~canZoom THEN none
       ELSE IF isKeyPressed(ic, "Equal")
       THEN [zoomIn |-> TRUE, zoomOut |-> FALSE,
             inputController |-> [ic EXCEPT !.lastZoomTime = t]]
       ELSE IF isKeyPressed(ic, "Minus")
       THEN [zoomIn |-> FALSE, zoomOut |-> TRUE,
             inputController |-> [ic EXCEPT !.lastZoomTime = t]]
       ELSE IF ic.wheelZoomQueue # 0
       THEN [zoomIn |-> ~(ic.wheelZoomQueue > 0),
             zoomOut |-> ic.wheelZoomQueue > 0,
             inputController |->
                 [ic EXCEPT !.wheelZoomQueue = @ - Sign(@),
                            !.lastZoomTime = t]]
       ELSE none

getZoomInput_wheelNotInverted(ic, t) ==
    LET canZoom == t - ic.lastZoomTime > ic.zoomCooldown
        none == [zoomIn |-> FALSE, zoomOut |-> FALSE, inputController |-> ic]
    IN IF ~canZoom THEN none
       ELSE IF isKeyPressed(ic, "Equal")
       THEN [zoomIn |-> TRUE, zoomOut |-> FALSE,
             inputController |-> [ic EXCEPT !.lastZoomTime = t]]
       ELSE IF isKeyPressed(ic, "Minus")
       THEN [zoomIn |-> FALSE, zoomOut |-> TRUE,
             inputController |-> [ic EXCEPT !.lastZoomTime = t]]
       ELSE IF ic.wheelZoomQueue # 0
       THEN [zoomIn |-> ic.wheelZoomQueue > 0,
             zoomOut |-> ~(ic.wheelZoomQueue > 0),
             inputController |-> [ic EXCEPT !.wheelZoomQueue = 0,
                                            !.lastZoomTime = t]]
       ELSE none

\* the intent returned, and the controller after the call; t is Date.now()
getZoomInput(ic, t) ==
    LET canZoom == t - ic.lastZoomTime > ic.zoomCooldown
        none == [zoomIn |-> FALSE, zoomOut |-> FALSE, inputController |-> ic]
    IN IF ~canZoom THEN none
       ELSE IF isKeyPressed(ic, "Equal")
       THEN [zoomIn |-> TRUE, zoomOut |-> FALSE,
             inputController |-> [ic EXCEPT !.lastZoomTime = t]]
       ELSE IF isKeyPressed(ic, "Minus")
       THEN [zoomIn |-> FALSE, zoomOut |-> TRUE,
             inputController |-> [ic EXCEPT !.lastZoomTime = t]]
       ELSE IF ic.wheelZoomQueue # 0
       THEN [zoomIn |-> ~(ic.wheelZoomQueue > 0),
             zoomOut |-> ic.wheelZoomQueue > 0,
             inputController |-> [ic EXCEPT !.wheelZoomQueue = 0,
                                            !.lastZoomTime = t]]
       ELSE none

getIsometricMovementInput(ic) ==
    LET screenInput == getMovementInput(ic)
        worldMovement == screenToWorldMovement(I(screenInput.x), I(screenInput.y))
    IN [worldX |-> worldMovement.x, worldY |-> worldMovement.y]

----------------------------------------------------------------------------
(* WorldController: centerOn and update.  wc is the controller: the record *)
(* of its fields.                                                          *)

\* lastHoveredTile is null, or the pair <<x, y>> for { x, y }
Null == <<>>

updateCameraPosition(wc) ==
    LET screenPos == getScreenPosition(wc.camera)
    IN [wc EXCEPT !.renderer.x = screenPos.x,
                  !.renderer.y = screenPos.y,
                  !.renderer.scale = wc.camera.zoom]

centerOn_noSnap(wc, worldX, worldY) ==
    updateCameraPosition(
        [wc EXCEPT !.camera = setNextTarget(wc.camera, worldX, worldY)])

centerOn(wc, worldX, worldY) ==
    updateCameraPosition(
        [wc EXCEPT !.camera =
            snapToNextTarget(setNextTarget(wc.camera, worldX, worldY))])

updateMousePicking(wc) ==
    LET tileX == 0
        tileY == 0
        last == wc.lastHoveredTile
    IN IF last = Null \/ last[1] # tileX \/ last[2] # tileY
       THEN LET r1 == IF last # Null
                      THEN setTileHover(wc.renderer, I(last[1]), I(last[2]), FALSE)
                      ELSE wc.renderer
            IN IF hasTile(wc.worldData, tileX, tileY)
               THEN [wc EXCEPT
                       !.renderer = setTileHover(r1, I(tileX), I(tileY), TRUE),
                       !.lastHoveredTile = <<tileX, tileY>>]
               ELSE [wc EXCEPT !.renderer = r1, !.lastHoveredTile = Null]
       ELSE wc

WorldController_update_keysUnread(wc, t) ==
    IF ~wc.isInitialized THEN wc
    ELSE LET zoomInput == getZoomInput(wc.inputController, t)
             c2 == IF zoomInput.zoomIn THEN zoomIn(wc.camera) ELSE wc.camera
             c3 == IF zoomInput.zoomOut THEN zoomOut(c2) ELSE c2
         IN updateMousePicking(updateCameraPosition(
                [wc EXCEPT !.inputController = zoomInput.inputController,
                           !.camera = Camera_update(c3)]))

\* update(); t is what Date.now() returns during the call
WorldController_update(wc, t) ==
    IF ~wc.isInitialized THEN wc
    ELSE LET movement == getIsometricMovementInput(wc.inputController)
             c1 == IF movement.worldX # I(0) \/ movement.worldY # I(0)
                   THEN move(wc.camera, NMul(movement.worldX, wc.camera.speed),
                                        NMul(movement.worldY, wc.camera.speed))
                   ELSE wc.camera
             zoomInput == getZoomInput(wc.inputController, t)
             c2 == IF zoomInput.zoomIn THEN zoomIn(c1) ELSE c1
             c3 == IF zoomInput.zoomOut THEN zoomOut(c2) ELSE c2
         IN updateMousePicking(updateCameraPosition(
                [wc EXCEPT !.inputController = zoomInput.inputController,
                           !.camera = Camera_update(c3)]))

----------------------------------------------------------------------------
(* SpecFrame: a WorldController for a 100 x 100 world, as MainScreen makes *)
(* it: one initialize() call, input events, centerOn and the update() of   *)
(* each frame.  The tile store is left as constructed but for tile (0,0).  *)

WC ==
    [camera |-> camera, inputController |-> inputController,
     renderer |-> renderer, worldData |-> worldData,
     isInitialized |-> isInitialized, lastHoveredTile |-> lastHoveredTile]

SetWC(wc) ==
    /\ camera' = wc.camera
    /\ inputController' = wc.inputController
    /\ renderer' = wc.renderer
    /\ worldData' = wc.worldData
    /\ isInitialized' = wc.isInitialized
    /\ lastHoveredTile' = wc.lastHoveredTile

InitFrame ==
    /\ worldData = WorldData_new(100, 100)
    /\ renderer = IsometricRenderer_new
    /\ camera = Camera_new(100, 100)
    /\ inputController = InputController_new
    /\ isInitialized = FALSE
    /\ lastHoveredTile = Null
    /\ calls = <<>>
    /\ disk = {}
    /\ now = 1000000
    /\ hist = [op |-> <<"new">>, pre |-> <<>>, ops |-> 0, loads |-> 0,
               inits |-> 0, frames |-> 0, centered |-> FALSE,
               wasOffGoal |-> FALSE, afterCenterOn |-> FALSE,
               quiet |-> FALSE, ran |-> FALSE]
    /\ arg = <<>>
    /\ result = <<>>

KeyCodes == { "ArrowRight", "Equal" }

\* deltaY of a wheel event: up and down
WheelDeltas == { -120, 120 }

CenterArgs == { <<I(50), I(50)>>, <<I(120), Q(-11, 2)>> }

\* milliseconds from one frame to the next
FrameTimes == { 16, 200 }

notInput == <<camera, now, worldData, renderer, isInitialized,
              lastHoveredTile, calls, arg, result, disk, hist>>

KeyDown(code) ==
    /\ inputController' = keydownHandler(inputController, code)
    /\ UNCHANGED notInput

KeyUp(code) ==
    /\ inputController' = keyupHandler(inputController, code)
    /\ UNCHANGED notInput

Wheel(deltaY) ==
    /\ inputController.wheelZoomQueue + Sign(deltaY) \in (0 - MaxWheel)..MaxWheel
    /\ inputController' = wheelHandler(inputController, deltaY)
    /\ UNCHANGED notInput

Blur ==
    /\ inputController' = blurHandler(inputController)
    /\ UNCHANGED notInput

\* hist.centered: centerOn(50,50) was the last centerOn or update call;
\* hist.wasOffGoal: the camera was off its goal when centerOn was called
CenterOn(a) ==
    /\ SetWC(centerOn(WC, a[1], a[2]))
    /\ hist' = [hist EXCEPT !.op = <<"centerOn", a>>, !.pre = <<>>,
                            !.centered = (a = <<I(50), I(50)>>),
                            !.wasOffGoal = ~AtGoal(camera)]
    /\ UNCHANGED <<now, calls, arg, result, disk>>

\* a frame, dt milliseconds after the last one.  hist.quiet: no key was down
\* and the wheel queue was empty at the call; hist.ran: the controller was
\* initialized; hist.afterCenterOn: the call before was centerOn(50,50)
Update(dt) ==
    /\ hist.frames < MaxFrames
    /\ now' = now + dt
    /\ SetWC(WorldController_update(WC, now'))
    /\ hist' = [hist EXCEPT !.op = <<"update">>, !.pre = <<>>,
                            !.frames = hist.frames + 1,
                            !.centered = FALSE,
                            !.afterCenterOn = hist.centered,
                            !.quiet = /\ inputController.keys = {}
                                      /\ inputController.wheelZoomQueue = 0,
                            !.ran = isInitialized]
    /\ UNCHANGED <<calls, arg, result, disk>>

\* getWorldData().setTile(0, 0, tile)
FrameSetTile ==
    /\ ~hasTile(worldData, 0, 0)
    /\ worldData' = setTile(worldData, 0, 0, Tile(1, 0, 0, 0))
    /\ UNCHANGED <<camera, inputController, now, renderer, isInitialized,
                   lastHoveredTile, calls, arg, result, disk, hist>>

NextFrame ==
    \/ CallInitialize(1)
    \/ \E i \in DOMAIN calls : LoadResolves(i)
    \/ \E i \in DOMAIN calls : LoadRejects(i)
    \/ \E i \in DOMAIN calls : RendererResolves(i)
    \/ \E code \in KeyCodes : KeyDown(code)
    \/ \E code \in KeyCodes : KeyUp(code)
    \/ \E deltaY \in WheelDeltas : Wheel(deltaY)
    \/ Blur
    \/ \E a \in CenterArgs : CenterOn(a)
    \/ \E dt \in FrameTimes : Update(dt)
    \/ FrameSetTile

SpecFrame == InitFrame /\ [][NextFrame]_vars

\* C4: when update() follows centerOn(50,50) with no key down and no wheel
\* input, the camera's target is exactly {50,50} and its zoom exactly nextZoom.
C4_CenterOnSnaps ==
    (hist.op = <<"update">> /\ hist.afterCenterOn /\ hist.quiet) =>
        /\ camera.target = Coord(I(50), I(50))
        /\ camera.zoom = camera.nextZoom

\* the camera was off its goal before centerOn, in a zoom step begun by the
\* frame before, and the update ran on an initialized controller
C4_Witness ==
    /\ hist.op = <<"update">>
    /\ hist.afterCenterOn
    /\ hist.quiet
    /\ hist.ran
    /\ hist.wasOffGoal
    /\ camera.nextZoom # I(2)
    /\ camera.zoom = camera.nextZoom
    /\ camera.target = Coord(I(50), I(50))
    /\ renderer.x = I(0)
    /\ renderer.y = NMul(I(-800), camera.zoom)
    /\ renderer.scale = camera.nextZoom

----------------------------------------------------------------------------
(* The InputController on its own: DOM events, the clock, and the calls   *)
(* update() makes on it.  hist records what the calls returned.           *)

\* wheelZoomQueue stays within -MaxQueue..MaxQueue
MaxQueue == 2

\* clock steps taken between the calls
MaxTicks == 3

\* Date.now() advances by one of these between two calls
Ticks == {1, 150}

InputKeyCodes == {"KeyD", "Equal", "Minus"}

ZoomKeys == {"Equal", "Minus"}

notInputOnly ==
    <<camera, worldData, renderer, isInitialized, lastHoveredTile, calls, arg,
      disk>>

\* the ghost fields of a step that is not a call: what the last call
\* returned and saw is forgotten
Forget(h) == [h EXCEPT !.op = <<"event">>, !.gap = 0, !.preQueue = 0]

InitInput ==
    /\ inputController = InputController_new
    /\ now = 1000000
    /\ result = <<>>
    /\ camera = <<>>
    /\ worldData = <<>>
    /\ renderer = <<>>
    /\ isInitialized = FALSE
    /\ lastHoveredTile = Null
    /\ calls = <<>>
    /\ disk = {}
    /\ arg = <<>>
    /\ hist = [op |-> <<"event">>, ticks |-> 0, lastIntent |-> 0,
               gap |-> 0, preQueue |-> 0,
               press |-> [k \in ZoomKeys |-> 0],
               blurred |-> "no"]

Tick(d) ==
    /\ hist.ticks < MaxTicks
    /\ now' = now + d
    /\ hist' = [Forget(hist) EXCEPT !.ticks = @ + 1]
    /\ result' = <<>>
    /\ UNCHANGED inputController
    /\ UNCHANGED notInputOnly

\* a keydown starts a press: the intents of the press are counted from it
InKeyDown(code) ==
    /\ inputController' = keydownHandler(inputController, code)
    /\ hist' = [Forget(hist) EXCEPT
                  !.press = [k \in ZoomKeys |->
                               IF k = code THEN 0 ELSE hist.press[k]],
                  !.blurred = "no"]
    /\ result' = <<>>
    /\ UNCHANGED now
    /\ UNCHANGED notInputOnly

InKeyUp(code) ==
    /\ inputController' = keyupHandler(inputController, code)
    /\ hist' = [Forget(hist) EXCEPT
                  !.press = [k \in ZoomKeys |->
                               IF k = code THEN 0 ELSE hist.press[k]]]
    /\ result' = <<>>
    /\ UNCHANGED now
    /\ UNCHANGED notInputOnly

InWheel(deltaY) ==
    /\ wheelHandler(inputController, deltaY).wheelZoomQueue \in -MaxQueue..MaxQueue
    /\ inputController' = wheelHandler(inputController, deltaY)
    /\ hist' = Forget(hist)
    /\ result' = <<>>
    /\ UNCHANGED now
    /\ UNCHANGED notInputOnly

\* blurred: "cleared" when the blur found keys down, "empty" when it did not
InBlur ==
    /\ inputController' = blurHandler(inputController)
    /\ hist' = [Forget(hist) EXCEPT
                  !.press = [k \in ZoomKeys |-> 0],
                  !.blurred = IF inputController.keys = {} THEN "empty"
                              ELSE "cleared"]
    /\ result' = <<>>
    /\ UNCHANGED now
    /\ UNCHANGED notInputOnly

Intent(r) == r.zoomIn \/ r.zoomOut

\* the key a keyboard intent is read from: "=" before "-"
IntentKey(keys) ==
    IF "Equal" \in keys THEN "Equal"
    ELSE IF "Minus" \in keys THEN "Minus" ELSE "none"

\* gap: the time since the last returned intent (since time 0 when there
\* was none); preQueue: the queue the call found
CallGetZoomInput ==
    LET r == getZoomInput(inputController, now)
        key == IntentKey(inputController.keys)
    IN /\ inputController' = r.inputController
       /\ result' = [zoomIn |-> r.zoomIn, zoomOut |-> r.zoomOut]
       /\ hist' = [hist EXCEPT
                     !.op = <<"getZoomInput">>,
                     !.gap = now - hist.lastIntent,
                     !.lastIntent = IF Intent(r) THEN now ELSE @,
                     !.press = [k \in ZoomKeys |->
                                  IF Intent(r) /\ k = key /\ hist.press[k] < 2
                                  THEN hist.press[k] + 1 ELSE hist.press[k]],
                     !.preQueue = inputController.wheelZoomQueue]
       /\ UNCHANGED now
       /\ UNCHANGED notInputOnly

CallGetMovementInput ==
    /\ result' = getMovementInput(inputController)
    /\ hist' = [Forget(hist) EXCEPT !.op = <<"getMovementInput">>]
    /\ UNCHANGED <<inputController, now>>
    /\ UNCHANGED notInputOnly

NextInput ==
    \/ \E d \in Ticks : Tick(d)
    \/ \E code \in InputKeyCodes : InKeyDown(code)
    \/ \E code \in InputKeyCodes : InKeyUp(code)
    \/ \E deltaY \in WheelDeltas : InWheel(deltaY)
    \/ InBlur
    \/ CallGetZoomInput
    \/ CallGetMovementInput

SpecInput == InitInput /\ [][NextInput]_vars

\* C11: a getZoomInput() call made 150 ms or less after the last returned
\* intent returns no intent, so two calls that each return an intent are more
\* than 150 ms apart.
C11_Cooldown ==
    (hist.op = <<"getZoomInput">> /\ hist.gap <= 150) =>
        ~Intent(result)

\* a call exactly 150 ms after an intent, with "=" down and wheel input
\* queued, returns no intent and leaves the queue
C11_Witness ==
    /\ hist.op = <<"getZoomInput">>
    /\ hist.gap = 150
    /\ "Equal" \in inputController.keys
    /\ inputController.wheelZoomQueue # 0
    /\ ~Intent(result)

\* C12 as stated: one continuous press of "=" or "-" (one keydown, no keyup)
\* produces a zoom intent from getZoomInput() at most once.
C12_EdgeTriggered == \A k \in ZoomKeys : hist.press[k] <= 1

\* C12, amended: keyboard zoom is level-triggered and gated by the cooldown.
\* While "=" is down, a getZoomInput() call returns zoomIn exactly when it is
\* made more than 150 ms after the last returned intent; while "-" is down and
\* "=" is not, it returns zoomOut exactly then.
C12_KeyboardZoomRepeats ==
    hist.op = <<"getZoomInput">> =>
        /\ "Equal" \in inputController.keys =>
               /\ result.zoomIn <=> hist.gap > 150
               /\ ~result.zoomOut
        /\ ("Minus" \in inputController.keys
            /\ "Equal" \notin inputController.keys) =>
               /\ result.zoomOut <=> hist.gap > 150
               /\ ~result.zoomIn

\* the second intent of one press of "=", 151 ms after the first
C12_Witness ==
    /\ hist.op = <<"getZoomInput">>
    /\ hist.press["Equal"] = 2
    /\ hist.gap = 151
    /\ result.zoomIn

\* a getZoomInput() call made with the cooldown elapsed and wheel input queued
Eligible ==
    /\ hist.op = <<"getZoomInput">>
    /\ hist.gap > 150
    /\ hist.preQueue # 0

ZoomKeyDown == inputController.keys \cap ZoomKeys # {}

\* C13 as stated: every getZoomInput() call made when the cooldown has elapsed
\* and the queue is non-zero resets the queue to 0 and returns exactly one
\* zoom step, whatever keys are down.
C13_QueueConsumed ==
    Eligible =>
        /\ inputController.wheelZoomQueue = 0
        /\ result.zoomIn # result.zoomOut

\* C13, amended: such a call resets the queue to 0 and returns exactly one
\* zoom step, whatever the queue's magnitude, when neither "=" nor "-" is
\* down; when one of them is down the call returns the key's step and leaves
\* the queue as it was.
C13_QueueConsumedUnlessZoomKey ==
    Eligible =>
        /\ result.zoomIn # result.zoomOut
        /\ ~ZoomKeyDown => inputController.wheelZoomQueue = 0
        /\ ZoomKeyDown =>
               /\ inputController.wheelZoomQueue = hist.preQueue
               /\ result.zoomIn <=> "Equal" \in inputController.keys

\* two wheel events queued, a movement key down: one call takes the whole
\* queue for one step
C13_Witness ==
    /\ Eligible
    /\ hist.preQueue = -2
    /\ inputController.keys = {"KeyD"}
    /\ inputController.wheelZoomQueue = 0
    /\ result.zoomIn

\* C14: a zoom intent taken from the wheel queue has the inverted sign: a
\* queue > 0 gives zoomOut only, a queue < 0 gives zoomIn only; and
\* getZoomInput() never returns zoomIn and zoomOut both true.
C14_WheelSignInverted ==
    hist.op = <<"getZoomInput">> =>
        /\ ~(result.zoomIn /\ result.zoomOut)
        /\ (Eligible /\ ~ZoomKeyDown /\ hist.preQueue > 0) =>
               (result.zoomOut /\ ~result.zoomIn)
        /\ (Eligible /\ ~ZoomKeyDown /\ hist.preQueue < 0) =>
               (result.zoomIn /\ ~result.zoomOut)

\* one wheel event with deltaY > 0 was queued and the call returns zoomOut
C14_Witness ==
    /\ Eligible
    /\ ~ZoomKeyDown
    /\ hist.preQueue = 1
    /\ result.zoomOut
    /\ ~result.zoomIn

\* C15: from a blur event until the next keydown the key set is empty,
\* getMovementInput() returns {x: 0, y: 0}, and an intent getZoomInput()
\* returns is not a keyboard intent: it is the step for the wheel queue.
C15_BlurReleasesKeys ==
    hist.blurred # "no" =>
        /\ inputController.keys = {}
        /\ hist.op = <<"getMovementInput">> => result = [x |-> 0, y |-> 0]
        /\ (hist.op = <<"getZoomInput">> /\ Intent(result)) =>
               /\ hist.preQueue # 0
               /\ inputController.wheelZoomQueue = 0
               /\ result.zoomOut <=> hist.preQueue > 0

\* keys were down at the blur, no keyup came, and getMovementInput() returns
\* no movement
C15_Witness ==
    /\ hist.blurred = "cleared"
    /\ hist.op = <<"getMovementInput">>
    /\ inputController.keys = {}
    /\ result = [x |-> 0, y |-> 0]

\* a step of a keydown, keyup, wheel or blur event: no call is made on the
\* WorldController, and the InputController changes
InputEvent == hist' = hist /\ inputController' # inputController

\* a step of update() on an initialized controller
Frame ==
    /\ isInitialized
    /\ hist'.op = <<"update">>
    /\ hist'.frames = hist.frames + 1

\* C16: a keydown, keyup, wheel or blur event changes only the key set and
\* the wheel queue: the camera and the renderer offset and scale stay as they
\* are.  The next update() consumes what was buffered: with ArrowRight down
\* it moves the camera's goal (unless the goal is held at the corner of the
\* bounds), and with the cooldown elapsed and no "=" down it empties a
\* non-empty wheel queue and steps nextZoom by one within 1..4.
C16_EventsOnlyBuffer ==
    [][/\ InputEvent =>
            /\ camera' = camera
            /\ renderer' = renderer
            /\ inputController'.lastZoomTime = inputController.lastZoomTime
       /\ (Frame /\ "ArrowRight" \in inputController.keys) =>
            \/ camera'.nextTarget # camera.nextTarget
            \/ camera.nextTarget = Coord(I(99), I(0))
       /\ (Frame /\ "Equal" \notin inputController.keys
                 /\ inputController.wheelZoomQueue # 0
                 /\ now' - inputController.lastZoomTime > 150) =>
            /\ inputController'.wheelZoomQueue = 0
            /\ camera'.nextZoom =
                   IF inputController.wheelZoomQueue > 0
                   THEN NMax(I(1), NSub(camera.nextZoom, I(1)))
                   ELSE NMin(I(4), NAdd(camera.nextZoom, I(1)))]_vars

\* a frame ran with nothing buffered; since then a keydown and a wheel event
\* have arrived, and the camera and the renderer are as a fresh controller's
\* frame leaves them
C16_Witness ==
    /\ hist.op = <<"update">>
    /\ hist.ran
    /\ hist.quiet
    /\ hist.frames = 1
    /\ inputController.keys = {"ArrowRight"}
    /\ inputController.wheelZoomQueue = 1
    /\ camera.nextTarget = Coord(I(50), I(50))
    /\ camera.target = Coord(I(50), I(50))
    /\ camera.nextZoom = camera.zoom
    /\ renderer.scale = camera.zoom

----------------------------------------------------------------------------
(* The 3D-to-2D render pipeline (Renderer3D). A model path is the pair     *)
(* <<directory, name>> for directory/name.glb; an output file is the pair  *)
(* <<modelName, angleName>> for modelName_angleName.png.  disk is the set  *)
(* of files of the output directory, each with what was written to it.     *)

angles == <<0, 90, 180, 270>>

angleNames == <<"ne", "nw", "sw", "se">>

\* path.basename(inputPath, '.glb')
basename(inputPath) == inputPath[2]

\* window.threeRenderer.renderModelAllAngles(model): one result per angle, in
\* angle order; rendered[i] tells whether the render of angle i succeeded
renderModelAllAngles(model, rendered) ==
    [i \in 1..4 |->
        IF rendered[i]
        THEN [angle |-> angles[i], angleName |-> angleNames[i],
              success |-> TRUE, imageData |-> <<model, angles[i]>>]
        ELSE [angle |-> angles[i], angleName |-> angleNames[i],
              success |-> FALSE, error |-> "render"]]

\* fs.promises.writeFile(outputPath, buffer)
writeFile(d, outputPath, buffer) ==
    {f \in d : f.path # outputPath} \cup {[path |-> outputPath, data |-> buffer]}

\* the save loop of renderAllAngles from result i on: the results pushed and
\* the disk after them; saved[i] tells whether mkdir and writeFile succeed
RECURSIVE SaveFrom(_, _, _, _, _, _)
SaveFrom(renderResults, i, modelName, saved, results, d) ==
    IF i > Len(renderResults) THEN [results |-> results, disk |-> d]
    ELSE LET renderResult == renderResults[i]
             outputPath == <<modelName, renderResult.angleName>>
             failure(error) ==
                 [angle |-> renderResult.angle,
                  angleName |-> renderResult.angleName,
                  outputPath |-> outputPath, success |-> FALSE,
                  error |-> error]
         IN IF renderResult.success
            THEN IF saved[i]
                 THEN SaveFrom(renderResults, i + 1, modelName, saved,
                          Append(results,
                              [angle |-> renderResult.angle,
                               angleName |-> renderResult.angleName,
                               outputPath |-> outputPath, success |-> TRUE]),
                          writeFile(d, outputPath, renderResult.imageData))
                 ELSE SaveFrom(renderResults, i + 1, modelName, saved,
                          Append(results, failure("save")), d)
            ELSE SaveFrom(renderResults, i + 1, modelName, saved,
                     Append(results, failure(renderResult.error)), d)

IsSuccess(r) == r.success

\* what the I/O of one renderAllAngles call does: io.loads tells whether the
\* model file is read and the page evaluates the render call
renderAllAngles_metadataAlways(d, inputPath, io) ==
    LET modelName == basename(inputPath)
    IN IF ~io.loads
       THEN [rejected |-> TRUE, renderResults |-> <<>>, metadata |-> Null,
             disk |-> d]
       ELSE LET renderResults == renderModelAllAngles(inputPath, io.rendered)
                saved == SaveFrom(renderResults, 1, modelName, io.saved, <<>>, d)
                successfulResults == SelectSeq(saved.results, IsSuccess)
            IN [rejected |-> FALSE,
                renderResults |-> saved.results,
                metadata |->
                    [modelName |-> modelName,
                     angles |-> [k \in 1..Len(successfulResults) |->
                        [angle |-> successfulResults[k].angle,
                         angleName |-> successfulResults[k].angleName,
                         file |-> successfulResults[k].outputPath]]],
                disk |-> saved.disk]

renderAllAngles(d, inputPath, io) ==
    LET modelName == basename(inputPath)
    IN IF ~io.loads
       THEN [rejected |-> TRUE, renderResults |-> <<>>, metadata |-> Null,
             disk |-> d]
       ELSE LET renderResults == renderModelAllAngles(inputPath, io.rendered)
                saved == SaveFrom(renderResults, 1, modelName, io.saved, <<>>, d)
                successfulResults == SelectSeq(saved.results, IsSuccess)
            IN [rejected |-> FALSE,
                renderResults |-> saved.results,
                metadata |->
                    IF Len(successfulResults) > 0
                    THEN [modelName |-> modelName,
                          angles |-> [k \in 1..Len(successfulResults) |->
                             [angle |-> successfulResults[k].angle,
                              angleName |-> successfulResults[k].angleName,
                              file |-> successfulResults[k].outputPath]]]
                    ELSE Null,
                disk |-> saved.disk]

----------------------------------------------------------------------------
(* SpecAngles: one renderAllAngles call on an output directory that is     *)
(* empty or holds the files of an earlier run.                             *)

ModelPaths ==
    { <<"commercial", "building-a">>, <<"industrial", "building-a">>,
      <<"roads", "road-straight">> }

Outcomes == [1..4 -> BOOLEAN]

AngleIO == [loads : BOOLEAN, rendered : Outcomes, saved : Outcomes]

\* the files an earlier run of the same model name left
EarlierRun(inputPath) ==
    { [path |-> <<basename(inputPath), angleNames[i]>>, data |-> <<"earlier">>]
        : i \in 1..4 }

notPipeline ==
    <<camera, inputController, now, worldData, renderer, isInitialized,
      lastHoveredTile, calls>>

InitAngles ==
    /\ disk \in {{}} \cup {EarlierRun(p) : p \in ModelPaths}
    /\ arg = <<>>
    /\ result = <<>>
    /\ hist = [op |-> <<"new">>, pre |-> {}]
    /\ camera = <<>>
    /\ inputController = <<>>
    /\ now = 0
    /\ worldData = <<>>
    /\ renderer = <<>>
    /\ isInitialized = FALSE
    /\ lastHoveredTile = Null
    /\ calls = <<>>

CallRenderAllAngles(inputPath, io) ==
    /\ arg = <<>>
    /\ LET r == renderAllAngles(disk, inputPath, io)
       IN /\ arg' = [inputPath |-> inputPath, io |-> io]
          /\ result' = [rejected |-> r.rejected,
                        renderResults |-> r.renderResults,
                        metadata |-> r.metadata]
          /\ disk' = r.disk
          /\ hist' = [op |-> <<"renderAllAngles">>, pre |-> disk]
    /\ UNCHANGED notPipeline

NextAngles ==
    \E inputPath \in ModelPaths, io \in AngleIO :
        CallRenderAllAngles(inputPath, io)

SpecAngles == InitAngles /\ [][NextAngles]_vars

\* a renderAllAngles call on a model that loads has returned
DoneAngles == hist.op = <<"renderAllAngles">> /\ arg.io.loads

\* angle i was rendered and saved
Succeeded(i) == arg.io.rendered[i] /\ arg.io.saved[i]

\* the metadata entries of the successful angles, in angle order
ExpectedAngles ==
    LET idx == SelectSeq(<<1, 2, 3, 4>>, Succeeded)
    IN [k \in 1..Len(idx) |->
           [angle |-> angles[idx[k]], angleName |-> angleNames[idx[k]],
            file |-> <<basename(arg.inputPath), angleNames[idx[k]]>>]]

\* every successful angle's image is in its file, and the file of every
\* other angle is as it was before the call
AnglesWritten ==
    \A i \in 1..4 :
        LET file == <<basename(arg.inputPath), angleNames[i]>>
        IN IF Succeeded(i)
           THEN [path |-> file, data |-> <<arg.inputPath, angles[i]>>] \in disk
           ELSE {f \in disk : f.path = file} = {f \in hist.pre : f.path = file}

\* C17 as stated: for any subset of failing angles the call does not reject,
\* every other angle is written to {modelName}_{angleName}.png, and the
\* metadata's angles array lists exactly the successful angles in angle order.
C17_AnglesIndependent ==
    DoneAngles =>
        /\ ~result.rejected
        /\ AnglesWritten
        /\ result.metadata # Null
        /\ result.metadata.angles = ExpectedAngles

\* C17, amended: the same for any subset of failing angles other than all
\* four; when all four fail the call does not reject either, nothing is
\* written, and the returned metadata is null: there is no angles array.
C17_AnglesIndependentUnlessAllFail ==
    DoneAngles =>
        /\ ~result.rejected
        /\ AnglesWritten
        /\ IF \E i \in 1..4 : Succeeded(i)
           THEN /\ result.metadata # Null
                /\ result.metadata.angles = ExpectedAngles
           ELSE result.metadata = Null

\* the render of angle 90 failed: ne, sw and se are written over the files of
\* an earlier run, and the metadata has these three entries
C17_Witness ==
    /\ DoneAngles
    /\ {i \in 1..4 : ~Succeeded(i)} = {2}
    /\ hist.pre = EarlierRun(arg.inputPath)
    /\ ~result.rejected
    /\ Len(result.metadata.angles) = 3
    /\ [k \in 1..3 |-> result.metadata.angles[k].angleName] = <<"ne", "sw", "se">>
    /\ [path |-> <<basename(arg.inputPath), "nw">>, data |-> <<"earlier">>] \in disk

----------------------------------------------------------------------------
(* SpecBatch: one renderMultipleModels call, a model of the list at a      *)
(* step.  calls holds the call in flight: its list, its position in the    *)
(* list, allMetadata (a function of the model names) and allResults.       *)

\* models in the list given to renderMultipleModels
MaxModels == 2

RECURSIVE ListsOf(_)
ListsOf(n) ==
    IF n = 0 THEN {<<>>}
    ELSE ListsOf(n - 1) \cup
         {Append(l, p) : l \in {m \in ListsOf(n - 1) : Len(m) = n - 1},
                         p \in ModelPaths}

AllOk == [i \in 1..4 |-> TRUE]
NoneOk == [i \in 1..4 |-> FALSE]
OneFails == [i \in 1..4 |-> i # 2]

\* what the I/O of one model of the batch does
BatchIO ==
    {[loads |-> FALSE, rendered |-> AllOk, saved |-> AllOk]} \cup
    {[loads |-> TRUE, rendered |-> r, saved |-> s] :
        r \in {AllOk, OneFails, NoneOk}, s \in {AllOk, NoneOk}}

\* allMetadata[name] = metadata
PutMetadata(allMetadata, name, metadata) ==
    [n \in DOMAIN allMetadata \cup {name} |->
        IF n = name THEN metadata ELSE allMetadata[n]]

\* one pass of the loop of renderMultipleModels, on model modelPath
processModel_abortsOnFailure(call, d, modelPath, io) ==
    LET r == renderAllAngles(d, modelPath, io)
    IN IF r.rejected \/ r.metadata = Null
       THEN [call |-> [call EXCEPT !.i = Len(call.modelPaths) + 1],
             disk |-> r.disk]
       ELSE [call |-> [call EXCEPT
                         !.i = @ + 1,
                         !.allResults = @ \o r.renderResults,
                         !.allMetadata =
                             PutMetadata(@, r.metadata.modelName, r.metadata)],
             disk |-> r.disk]

processModel(call, d, modelPath, io) ==
    LET r == renderAllAngles(d, modelPath, io)
    IN IF r.rejected
       THEN [call |-> [call EXCEPT !.i = @ + 1], disk |-> r.disk]
       ELSE [call |-> [call EXCEPT
                         !.i = @ + 1,
                         !.allResults = @ \o r.renderResults,
                         !.allMetadata =
                             IF r.metadata # Null
                             THEN PutMetadata(@, r.metadata.modelName,
                                              r.metadata)
                             ELSE @],
             disk |-> r.disk]

MetadataFile == <<"models-metadata.json">>

InitBatch ==
    /\ disk = {}
    /\ calls = <<>>
    /\ arg = <<>>
    /\ result = <<>>
    /\ hist = [op |-> <<"new">>, tried |-> <<>>, writeFailed |-> FALSE]
    /\ camera = <<>>
    /\ inputController = <<>>
    /\ now = 0
    /\ worldData = <<>>
    /\ renderer = <<>>
    /\ isInitialized = FALSE
    /\ lastHoveredTile = Null

notBatch ==
    <<camera, inputController, now, worldData, renderer, isInitialized,
      lastHoveredTile>>

CallRenderMultipleModels(modelPaths) ==
    /\ calls = <<>>
    /\ arg = <<>>
    /\ arg' = modelPaths
    /\ calls' = <<[modelPaths |-> modelPaths, i |-> 1, allMetadata |-> <<>>,
                   allResults |-> <<>>]>>
    /\ hist' = [hist EXCEPT !.op = <<"call">>]
    /\ UNCHANGED <<disk, result>>
    /\ UNCHANGED notBatch

\* hist.tried: the models renderAllAngles was called on, each with whether
\* one of its angles was rendered and saved
ProcessModel(io) ==
    /\ calls # <<>>
    /\ calls[1].i <= Len(calls[1].modelPaths)
    /\ LET modelPath == calls[1].modelPaths[calls[1].i]
           r == processModel(calls[1], disk, modelPath, io)
       IN /\ calls' = <<r.call>>
          /\ disk' = r.disk
          /\ hist' = [hist EXCEPT
                        !.op = <<"model">>,
                        !.tried = Append(@,
                            [modelPath |-> modelPath,
                             succeeded |->
                                 /\ io.loads
                                 /\ \E i \in 1..4 : io.rendered[i] /\ io.saved[i]])]
    /\ UNCHANGED <<arg, result>>
    /\ UNCHANGED notBatch

\* the end of renderMultipleModels: the consolidated metadata file, whose
\* writeFile succeeds or throws, and the return
Return(written) ==
    /\ calls # <<>>
    /\ calls[1].i > Len(calls[1].modelPaths)
    /\ LET call == calls[1]
           writes == DOMAIN call.allMetadata # {}
       IN /\ disk' = IF writes /\ written
                     THEN writeFile(disk, MetadataFile, call.allMetadata)
                     ELSE disk
          /\ result' = IF writes /\ ~written
                       THEN [rejected |-> TRUE]
                       ELSE [rejected |-> FALSE,
                             allResults |-> call.allResults,
                             metadata |-> call.allMetadata]
          /\ hist' = [hist EXCEPT !.op = <<"renderMultipleModels">>,
                                  !.writeFailed = writes /\ ~written]
    /\ calls' = <<>>
    /\ UNCHANGED arg
    /\ UNCHANGED notBatch

NextBatch ==
    \/ \E modelPaths \in ListsOf(MaxModels) : CallRenderMultipleModels(modelPaths)
    \/ \E io \in BatchIO : ProcessModel(io)
    \/ \E written \in BOOLEAN : Return(written)

SpecBatch == InitBatch /\ [][NextBatch]_vars

\* the renderMultipleModels call has returned or rejected
DoneBatch == hist.op = <<"renderMultipleModels">>

\* renderAllAngles was called on every model of the list, in list order
EveryModelTried ==
    [k \in 1..Len(hist.tried) |-> hist.tried[k].modelPath] = arg

\* the call rejects only when writing the consolidated metadata fails, and
\* that file is there only when one model had an angle rendered and saved
BatchOutcome ==
    /\ result.rejected => hist.writeFailed
    /\ (\E f \in disk : f.path = MetadataFile) =>
           /\ \E k \in 1..Len(hist.tried) : hist.tried[k].succeeded
           /\ DOMAIN result.metadata # {}

\* C18 as stated: every model is attempted in list order, a failed model
\* does not make the call abort or reject, the metadata has an entry for a
\* model exactly when one of that model's angle renders succeeded, and
\* models-metadata.json is written only when there is an entry.
C18_BatchContinues ==
    DoneBatch =>
        /\ EveryModelTried
        /\ BatchOutcome
        /\ ~result.rejected =>
               \A p \in {arg[k] : k \in 1..Len(arg)} :
                   basename(p) \in DOMAIN result.metadata
                       <=> \E k \in 1..Len(hist.tried) :
                               /\ hist.tried[k].modelPath = p
                               /\ hist.tried[k].succeeded

\* C18, amended: the metadata is keyed by model name: it has an entry under
\* a name exactly when an angle render succeeded for some model of that name
\* in the list; a model whose renders all failed still finds an entry under
\* its name when another model of the list has the same file name.
C18_BatchContinuesByName ==
    DoneBatch =>
        /\ EveryModelTried
        /\ BatchOutcome
        /\ ~result.rejected =>
               \A p \in ModelPaths :
                   basename(p) \in DOMAIN result.metadata
                       <=> \E k \in 1..Len(hist.tried) :
                               /\ basename(hist.tried[k].modelPath) = basename(p)
                               /\ hist.tried[k].succeeded

\* the first model cannot be loaded, the second has one failing angle: the
\* call returns the second model's metadata and has written the file
C18_Witness ==
    /\ DoneBatch
    /\ ~result.rejected
    /\ Len(hist.tried) = 2
    /\ ~hist.tried[1].succeeded
    /\ hist.tried[2].succeeded
    /\ basename(arg[1]) # basename(arg[2])
    /\ DOMAIN result.metadata = {basename(arg[2])}
    /\ Len(result.metadata[basename(arg[2])].angles) = 3
    /\ Len(result.allResults) = 4
    /\ [path |-> MetadataFile, data |-> result.metadata] \in disk

----------------------------------------------------------------------------
(* The page's renderer (ThreeRenderer): render dimensions and cropCanvas.  *)
(* A canvas is its width, its height and the set of its pixels whose alpha *)
(* is not 0, each as [x, y, alpha]; an image is a canvas.                  *)

TILE_WIDTH_PX == 64
TILE_HEIGHT_PX == 32

\* the floor of the canvas height
MinRenderHeight == 200

calculateRenderDimensions(footprint) ==
    LET width == footprint.x * TILE_WIDTH_PX
        minHeight == footprint.y * TILE_HEIGHT_PX
        height == IF minHeight > MinRenderHeight THEN minHeight
                  ELSE MinRenderHeight
    IN [width |-> width, height |-> height,
        centerOffsetX |-> 0, centerOffsetY |-> 0]

\* Math.min and Math.max folded over the pixels found, from the start value
FoldMin(start, S) == CHOOSE m \in S \cup {start} : \A n \in S \cup {start} : m <= n
FoldMax(start, S) == CHOOSE m \in S \cup {start} : \A n \in S \cup {start} : m >= n

cropCanvas_noEmptyCheck(canvas) ==
    LET found == {p \in canvas.pixels : p.alpha > 0}
        minX == FoldMin(canvas.width, {p.x : p \in found})
        minY == FoldMin(canvas.height, {p.y : p \in found})
        maxX == FoldMax(0, {p.x : p \in found})
        maxY == FoldMax(0, {p.y : p \in found})
        croppedWidth == maxX - minX + 1
        croppedHeight == maxY - minY + 1
    IN [width |-> croppedWidth, height |-> croppedHeight,
        pixels |-> {[x |-> p.x - minX, y |-> p.y - minY, alpha |-> p.alpha] :
                      p \in canvas.pixels}]

\* the image cropCanvas makes a data URL of
cropCanvas(canvas) ==
    LET found == {p \in canvas.pixels : p.alpha > 0}
        minX == FoldMin(canvas.width, {p.x : p \in found})
        minY == FoldMin(canvas.height, {p.y : p \in found})
        maxX == FoldMax(0, {p.x : p \in found})
        maxY == FoldMax(0, {p.y : p \in found})
        croppedWidth == maxX - minX + 1
        croppedHeight == maxY - minY + 1
    IN IF minX >= maxX \/ minY >= maxY
       THEN canvas
       ELSE [width |-> croppedWidth, height |-> croppedHeight,
             pixels |-> {[x |-> p.x - minX, y |-> p.y - minY,
                          alpha |-> p.alpha] : p \in canvas.pixels}]

\* ThreeRenderer.renderModel for a model of the given footprint; drawn is the
\* set of pixels renderer.render leaves opaque on the canvas
ThreeRenderer_renderModel(footprint, drawn) ==
    LET actualFootprint == footprint
        renderDims == calculateRenderDimensions(actualFootprint)
        canvas == [width |-> renderDims.width, height |-> renderDims.height,
                   pixels |-> drawn]
    IN [imageData |-> cropCanvas(canvas), footprint |-> actualFootprint,
        renderDimensions |-> renderDims]

----------------------------------------------------------------------------
(* SpecCrop: cropCanvas on small canvases of every content, and            *)
(* renderModel on footprints with content at chosen pixels.                *)

\* canvases of cropCanvas are up to MaxCanvas wide and high
MaxCanvas == 2

\* footprints are up to MaxFootprint tiles in x and in y
MaxFootprint == 3

Pixel(x, y) == [x |-> x, y |-> y, alpha |-> 255]

Canvases ==
    UNION { { [width |-> w, height |-> h, pixels |-> {Pixel(q[1], q[2]) : q \in S}] :
                S \in SUBSET ((0..(w - 1)) \X (0..(h - 1))) } :
            w \in 0..MaxCanvas, h \in 0..MaxCanvas }

Footprints == [x : 1..MaxFootprint, y : 1..MaxFootprint]

\* pixels a render may leave opaque on a canvas of the footprint's dimensions
Drawable(footprint) ==
    LET d == calculateRenderDimensions(footprint)
    IN { Pixel(0, 0), Pixel(d.width - 1, d.height - 1), Pixel(10, 5),
         Pixel(d.width - 1, 0), Pixel(20, d.height - 1) }

CropInputs == { [fn |-> "cropCanvas", canvas |-> c] : c \in Canvases }

RenderInputs ==
    UNION { { [fn |-> "renderModel", footprint |-> f, drawn |-> S] :
                S \in SUBSET Drawable(f) } : f \in Footprints }

InitCrop ==
    /\ arg \in CropInputs \cup RenderInputs
    /\ result = <<>>
    /\ hist = <<>>
    /\ camera = <<>>
    /\ inputController = <<>>
    /\ now = 0
    /\ worldData = <<>>
    /\ renderer = <<>>
    /\ isInitialized = FALSE
    /\ lastHoveredTile = Null
    /\ calls = <<>>
    /\ disk = {}

CallCropCanvas ==
    /\ arg.fn = "cropCanvas"
    /\ result = <<>>
    /\ result' = cropCanvas(arg.canvas)
    /\ UNCHANGED <<arg, notPure>>

CallRenderModel ==
    /\ arg.fn = "renderModel"
    /\ result = <<>>
    /\ result' = ThreeRenderer_renderModel(arg.footprint, arg.drawn)
    /\ UNCHANGED <<arg, notPure>>

NextCrop == CallCropCanvas \/ CallRenderModel

SpecCrop == InitCrop /\ [][NextCrop]_vars

CropDone == arg.fn = "cropCanvas" /\ result # <<>>

RenderDone == arg.fn = "renderModel" /\ result # <<>>

\* C19: for a model with footprint (fx, fy) the image renderModel emits for
\* an angle is exactly fx * TILE_WIDTH_PX wide, whatever was rendered.
C19_EmittedWidth ==
    RenderDone => result.imageData.width = arg.footprint.x * TILE_WIDTH_PX

\* C20: cropCanvas on a canvas with no pixel of alpha above 0 returns an
\* image of the canvas's width and height.
C20_EmptyCanvasKeepsSize ==
    (CropDone /\ \A p \in arg.canvas.pixels : ~(p.alpha > 0)) =>
        /\ result.width = arg.canvas.width
        /\ result.height = arg.canvas.height

\* a transparent canvas 2 wide and 1 high comes back 2 wide and 1 high
C20_Witness ==
    /\ CropDone
    /\ arg.canvas = [width |-> 2, height |-> 1, pixels |-> {}]
    /\ result.width = 2
    /\ result.height = 1

----------------------------------------------------------------------------
(* SpecFootprint: centerAndScaleModel on bounding boxes whose sizes are     *)
(* whole tenths of a world unit.                                            *)

\* bounding box sizes go up to MaxTenths tenths of a world unit
MaxTenths == 40

\* Math.ceil and Math.round of t tenths, t >= 0
CeilTenths(t) == (t + 9) \div 10
RoundTenths(t) == (t + 5) \div 10

centerAndScaleModel_rounds(size) ==
    LET tilesX == IF RoundTenths(size.x) > 1 THEN RoundTenths(size.x) ELSE 1
        tilesY == IF RoundTenths(size.z) > 1 THEN RoundTenths(size.z) ELSE 1
    IN [baseFootprint |-> [x |-> tilesX, y |-> tilesY],
        worldSize |-> [x |-> size.x, y |-> size.z]]

\* what centerAndScaleModel stores on the model: size is the bounding box
\* size in tenths, x and z horizontal, y the height
centerAndScaleModel(size) ==
    LET tilesX == IF CeilTenths(size.x) > 1 THEN CeilTenths(size.x) ELSE 1
        tilesY == IF CeilTenths(size.z) > 1 THEN CeilTenths(size.z) ELSE 1
    IN [baseFootprint |-> [x |-> tilesX, y |-> tilesY],
        worldSize |-> [x |-> size.x, y |-> size.z]]

BoxSizes == [x : 0..MaxTenths, y : {0, 11}, z : 0..MaxTenths]

InitFootprint ==
    /\ arg \in { [fn |-> "centerAndScaleModel", size |-> s] : s \in BoxSizes }
    /\ result = <<>>
    /\ hist = <<>>
    /\ camera = <<>>
    /\ inputController = <<>>
    /\ now = 0
    /\ worldData = <<>>
    /\ renderer = <<>>
    /\ isInitialized = FALSE
    /\ lastHoveredTile = Null
    /\ calls = <<>>
    /\ disk = {}

CallCenterAndScaleModel ==
    /\ arg.fn = "centerAndScaleModel"
    /\ result = <<>>
    /\ result' = centerAndScaleModel(arg.size)
    /\ UNCHANGED <<arg, notPure>>

NextFootprint == CallCenterAndScaleModel

SpecFootprint == InitFootprint /\ [][NextFootprint]_vars

FootprintDone == arg.fn = "centerAndScaleModel" /\ result # <<>>

\* C21 as claimed: the footprint of a model whose bounding box is sizeX by
\* sizeZ on the ground is (max(1, round(sizeX)), max(1, round(sizeZ))); a box
\* of size (2.4, 1.1, 3.6) has the footprint (2,4).
C21_FootprintRounded ==
    FootprintDone =>
        /\ result.baseFootprint.x =
              (IF RoundTenths(arg.size.x) > 1 THEN RoundTenths(arg.size.x) ELSE 1)
        /\ result.baseFootprint.y =
              (IF RoundTenths(arg.size.z) > 1 THEN RoundTenths(arg.size.z) ELSE 1)

\* n tiles are the fewest, and at least one, that a size of t tenths fits in
FewestTiles(n, t) ==
    /\ n >= 1
    /\ 10 * n >= t
    /\ n > 1 => 10 * (n - 1) < t

\* C21, amended: the footprint is (max(1, ceil(sizeX)), max(1, ceil(sizeZ))),
\* the fewest whole tiles the box fits in on each axis; a box of size
\* (2.4, 1.1, 3.6) has the footprint (3,4).
C21_FootprintCeiled ==
    FootprintDone =>
        /\ FewestTiles(result.baseFootprint.x, arg.size.x)
        /\ FewestTiles(result.baseFootprint.y, arg.size.z)
        /\ result.worldSize = [x |-> arg.size.x, y |-> arg.size.z]

\* the box of size (2.4, 1.1, 3.6) got the footprint (3,4)
C21_Witness ==
    /\ FootprintDone
    /\ arg.size = [x |-> 24, y |-> 11, z |-> 36]
    /\ result.baseFootprint = [x |-> 3, y |-> 4]

----------------------------------------------------------------------------
(* SpecIncremental: needs2DGeneration and the selection loop of            *)
(* generate2DAssets, for one model and every state of the files it looks   *)
(* at.  files maps a path to what fs.stat finds there.                     *)

\* modification times are 1..MaxTime
MaxTime == 2

\* what fs.stat finds at a path: a file with its mtime, or nothing (it throws)
NoFile == [exists |-> FALSE, mtime |-> 0]
FileAt(t) == [exists |-> TRUE, mtime |-> t]
StatResults == {NoFile} \cup {FileAt(t) : t \in 1..MaxTime}

scriptFiles == << <<"scripts", "3d-renderer.js">>,
                  <<"scripts", "three-renderer-client.js">> >>

pngPath(modelName, angleName) == <<"assets2d", modelName, angleName>>

\* the loop over scriptFiles from index i: Math.max of the times found
RECURSIVE LatestScriptTime(_, _, _)
LatestScriptTime(files, i, latestScriptTime) ==
    IF i > Len(scriptFiles) THEN latestScriptTime
    ELSE LET scriptStats == files[scriptFiles[i]]
         IN IF scriptStats.exists
            THEN LatestScriptTime(files, i + 1,
                    IF scriptStats.mtime > latestScriptTime
                    THEN scriptStats.mtime ELSE latestScriptTime)
            ELSE LatestScriptTime(files, i + 1, latestScriptTime)

\* the loop over angleNames from index i
RECURSIVE AnyPngStale_orEqual(_, _, _, _)
AnyPngStale_orEqual(files, modelName, latestSourceTime, i) ==
    IF i > Len(angleNames) THEN FALSE
    ELSE LET pngStats == files[pngPath(modelName, angleNames[i])]
         IN IF ~pngStats.exists THEN TRUE
            ELSE IF pngStats.mtime <= latestSourceTime THEN TRUE
            ELSE AnyPngStale_orEqual(files, modelName, latestSourceTime, i + 1)

RECURSIVE AnyPngStale(_, _, _, _)
AnyPngStale(files, modelName, latestSourceTime, i) ==
    IF i > Len(angleNames) THEN FALSE
    ELSE LET pngStats == files[pngPath(modelName, angleNames[i])]
         IN IF ~pngStats.exists THEN TRUE
            ELSE IF pngStats.mtime < latestSourceTime THEN TRUE
            ELSE AnyPngStale(files, modelName, latestSourceTime, i + 1)

needs2DGeneration(files, glbPath) ==
    LET modelName == basename(glbPath)
        glbStats == files[glbPath]
        glbTime == glbStats.mtime
        latestScriptTime == LatestScriptTime(files, 1, 0)
        latestSourceTime == IF glbTime > latestScriptTime THEN glbTime
                            ELSE latestScriptTime
    IN IF ~glbStats.exists THEN TRUE
       ELSE AnyPngStale(files, modelName, latestSourceTime, 1)

\* the model generate2DAssets looks at
GlbFile == <<"commercial", "building-a">>

FilePaths ==
    {GlbFile} \cup {scriptFiles[i] : i \in 1..Len(scriptFiles)}
              \cup {pngPath(basename(GlbFile), angleNames[i]) : i \in 1..Len(angleNames)}

InitIncremental ==
    /\ arg \in { [fn |-> "generate2DAssets", glbFile |-> GlbFile, files |-> f] :
                   f \in [FilePaths -> StatResults] }
    /\ result = <<>>
    /\ hist = [modelsToGenerate |-> <<>>]
    /\ camera = <<>>
    /\ inputController = <<>>
    /\ now = 0
    /\ worldData = <<>>
    /\ renderer = <<>>
    /\ isInitialized = FALSE
    /\ lastHoveredTile = Null
    /\ calls = <<>>
    /\ disk = {}

notIncremental == <<camera, inputController, now, worldData, renderer,
                    isInitialized, lastHoveredTile, calls, disk>>

\* one pass of the selection loop of generate2DAssets
CheckModel ==
    /\ arg.fn = "generate2DAssets"
    /\ result = <<>>
    /\ LET needsGeneration == needs2DGeneration(arg.files, arg.glbFile)
       IN /\ result' = [needsGeneration |-> needsGeneration]
          /\ hist' = [hist EXCEPT !.modelsToGenerate =
                        IF needsGeneration THEN Append(@, arg.glbFile) ELSE @]
    /\ UNCHANGED <<arg, notIncremental>>

NextIncremental == CheckModel

SpecIncremental == InitIncremental /\ [][NextIncremental]_vars

Checked == arg.fn = "generate2DAssets" /\ result # <<>>

\* the latest modification time among the model file and the scripts found
SourceTime ==
    CHOOSE t \in 0..MaxTime :
       LET S == {arg.files[arg.glbFile].mtime} \cup
                {arg.files[scriptFiles[i]].mtime : i \in 1..Len(scriptFiles)}
       IN t \in S /\ \A u \in S : u <= t

OutputStale(angleName) ==
    LET png == arg.files[pngPath(basename(arg.glbFile), angleName)]
    IN ~png.exists \/ png.mtime < SourceTime

\* C22: for a model whose source file exists, needs2DGeneration is true
\* exactly when one of its four outputs is missing or older than the latest
\* of the model's and the scripts' modification times, and the model is
\* selected for generation exactly then.
C22_RegenerateWhenStale ==
    (Checked /\ arg.files[arg.glbFile].exists) =>
        /\ result.needsGeneration <=>
              \E i \in 1..Len(angleNames) : OutputStale(angleNames[i])
        /\ hist.modelsToGenerate =
              (IF \E i \in 1..Len(angleNames) : OutputStale(angleNames[i])
               THEN <<arg.glbFile>> ELSE <<>>)

\* all four outputs exist with the time of the newest source: skipped
C22_Witness ==
    /\ Checked
    /\ arg.files[arg.glbFile] = FileAt(1)
    /\ arg.files[scriptFiles[1]] = FileAt(2)
    /\ arg.files[scriptFiles[2]] = NoFile
    /\ \A i \in 1..Len(angleNames) :
          arg.files[pngPath("building-a", angleNames[i])] = FileAt(2)
    /\ result.needsGeneration = FALSE
    /\ hist.modelsToGenerate = <<>>

----------------------------------------------------------------------------
(* SpecCorners: getCornerHeight on the stores that a few setTile calls     *)
(* leave, asked for every coordinate next to them.                         *)

\* the store is filled by up to MaxCornerTiles setTile calls
MaxCornerTiles == 2

CornerCoords == { <<0, 0>>, <<1, 0>>, <<0, 1>>, <<-1, 0>> }

\* a setTile call: at coordinate c, with a new tile of the height given, or
\* (stored) with the tile object that getTile(0, 0) returns
SetTileCalls ==
    [c : CornerCoords, height : {0, 2, 3}, stored : {FALSE}]
      \cup [c : CornerCoords, height : {0}, stored : {TRUE}]

ApplySetTile(wd, call) ==
    IF call.stored
    THEN IF hasTile(wd, 0, 0)
         THEN setTile(wd, call.c[1], call.c[2], getTile(wd, 0, 0))
         ELSE wd
    ELSE setTile(wd, call.c[1], call.c[2], Tile(1, call.height, 0, 0))

RECURSIVE StoresAfter(_)
\* the stores that n setTile calls on a new 2 x 2 WorldData can leave
StoresAfter(n) ==
    IF n = 0 THEN { WorldData_new(2, 2) }
    ELSE LET S == StoresAfter(n - 1)
         IN S \cup { ApplySetTile(wd, call) : wd \in S, call \in SetTileCalls }

CornerQueries == [x : -2..2, y : -1..2, corner : 0..3]

InitCorners ==
    /\ worldData \in StoresAfter(MaxCornerTiles)
    /\ arg \in { [fn |-> "getCornerHeight", x |-> q.x, y |-> q.y,
                  corner |-> q.corner] : q \in CornerQueries }
    /\ result = <<>>
    /\ hist = <<>>
    /\ camera = <<>>
    /\ inputController = <<>>
    /\ now = 0
    /\ renderer = <<>>
    /\ isInitialized = FALSE
    /\ lastHoveredTile = Null
    /\ calls = <<>>
    /\ disk = {}

CallGetCornerHeight ==
    /\ arg.fn = "getCornerHeight"
    /\ result = <<>>
    /\ result' = [height |-> getCornerHeight(worldData, arg.x, arg.y, arg.corner)]
    /\ UNCHANGED <<arg, notPure>>

NextCorners == CallGetCornerHeight

SpecCorners == InitCorners /\ [][NextCorners]_vars

CornerDone == arg.fn = "getCornerHeight" /\ result # <<>>

\* the northCornerHeight of the tile filed under (x, y), 0 when there is none
NorthOf(x, y) ==
    IF \E t \in worldData.tiles : <<x, y>> \in t.keys
    THEN (CHOOSE t \in worldData.tiles : <<x, y>> \in t.keys).northCornerHeight
    ELSE 0

\* C23: getCornerHeight(x, y, corner) is the north corner height of tile
\* (x, y) for N, of (x+1, y) for E, of (x, y+1) for S and of (x-1, y) for W,
\* and 0 when that tile is absent; so the east corner of (x, y) is the north
\* corner of (x+1, y).
C23_CornerFromNeighbour ==
    CornerDone =>
        /\ arg.corner = 0 => result.height = NorthOf(arg.x, arg.y)
        /\ arg.corner = 1 => result.height = NorthOf(arg.x + 1, arg.y)
        /\ arg.corner = 2 => result.height = NorthOf(arg.x, arg.y + 1)
        /\ arg.corner = 3 => result.height = NorthOf(arg.x - 1, arg.y)
        /\ arg.corner = 1 =>
              result.height = getCornerHeight(worldData, arg.x + 1, arg.y, 0)

\* the east corner of the empty cell (-1, 0) is the north corner, 3 high, of
\* the tile at (0, 0), while the cell (1, 0) holds a tile 2 high
C23_Witness ==
    /\ CornerDone
    /\ arg.x = -1 /\ arg.y = 0 /\ arg.corner = 1
    /\ ~hasTile(worldData, -1, 0)
    /\ hasTile(worldData, 1, 0)
    /\ NorthOf(1, 0) = 2
    /\ NorthOf(0, 0) = 3
    /\ result.height = 3

----------------------------------------------------------------------------
(* SpecBounds: cameras of several world sizes, with setBounds among the    *)
(* goal-setting calls.                                                     *)

\* at most MaxBoundsOps calls are made on a camera
MaxBoundsOps == 2

\* worldWidth and worldHeight given to the constructor
CameraSides == { 1, 2, 100 }

\* arguments of setBounds(minX, minY, maxX, maxY)
BoundsArgs ==
    { <<I(0), I(0), I(9), I(9)>>, <<I(10), I(10), I(20), I(20)>>,
      <<I(0), I(0), I(99), I(99)>> }

InitBounds ==
    /\ \E w \in CameraSides, h \in CameraSides :
          /\ camera = Camera_new(w, h)
          /\ hist = Rec(<<"new", w, h>>, Camera_new(w, h), 0, 0)
    /\ inputController = <<>>
    /\ now = 0
    /\ worldData = <<>>
    /\ renderer = <<>>
    /\ isInitialized = FALSE
    /\ lastHoveredTile = <<>>
    /\ calls = <<>>
    /\ disk = {}
    /\ arg = <<>>
    /\ result = <<>>

CamSetBounds(args, ops) ==
    \E a \in args :
        GoalOp(<<"setBounds", a>>,
               setBounds(camera, a[1], a[2], a[3], a[4]), ops)

NextBounds ==
    \/ hist.ops < MaxBoundsOps /\ CamSetNextTarget(TargetArgs, hist.ops + 1)
    \/ hist.ops < MaxBoundsOps /\ CamMove(MoveArgs, hist.ops + 1)
    \/ hist.ops < MaxBoundsOps /\ CamSetBounds(BoundsArgs, hist.ops + 1)

SpecBounds == InitBounds /\ [][NextBounds]_vars

\* C24: in every reachable Camera state nextTarget lies within the current
\* bounds [minX, maxX] x [minY, maxY], right after construction for every
\* world size and right after every setBounds call as well.
C24_NextTargetWithinBounds ==
    /\ NLe(camera.minX, camera.nextTarget.x)
    /\ NLe(camera.nextTarget.x, camera.maxX)
    /\ NLe(camera.minY, camera.nextTarget.y)
    /\ NLe(camera.nextTarget.y, camera.maxY)

----------------------------------------------------------------------------
(* SpecSnap: the default camera, goals set at distances around the snap    *)
(* thresholds, and update().                                               *)

\* at most MaxSnapOps goal-setting calls are made
MaxSnapOps == 1

\* arguments of setNextTarget(x, y), from the start at (50, 50): under the
\* position threshold, on it, one axis on it with the other further off, and
\* one axis under it with the other at the far bound
SnapTargetArgs ==
    { <<Q(100001, 2000), I(50)>>, <<Q(50001, 1000), I(50)>>,
      <<Q(101, 2), Q(50001, 1000)>>, <<I(0), Q(100001, 2000)>> }

NextSnap ==
    \/ hist.ops < MaxSnapOps /\ CamSetNextTarget(SnapTargetArgs, hist.ops + 1)
    \/ hist.ops < MaxSnapOps /\ CamZoomIn(hist.ops + 1)
    \/ CamUpdate

SpecSnap == InitCamera /\ [][NextSnap]_vars

----------------------------------------------------------------------------
(* Claims about the snap test of Camera.update, on SpecSnap.               *)

\* before the last call, all three distances were under their thresholds
AllClose(c) ==
    /\ NLt(DistX(c), SnapPos)
    /\ NLt(DistY(c), SnapPos)
    /\ NLt(DistZ(c), SnapZoom)

\* the value v after moving the smoothing fraction of the way to goal
Smoothed(c, v, goal) == NAdd(v, NMul(NSub(goal, v), c.smoothing))

\* C25: update() puts target and zoom exactly on nextTarget and nextZoom
\* only when |dx| < 0.001, |dy| < 0.001 and |dz| < 0.01 all held before the
\* call; when one of them is at or above its threshold nothing is snapped and
\* each of the three moves by exactly the smoothing fraction of its own
\* remaining distance.
C25_SnapOnlyWhenAllClose ==
    hist.op = <<"update">> =>
        /\ AtGoal(camera) => AllClose(hist.pre)
        /\ ~AllClose(hist.pre) =>
              /\ camera.target.x =
                    Smoothed(hist.pre, hist.pre.target.x, hist.pre.nextTarget.x)
              /\ camera.target.y =
                    Smoothed(hist.pre, hist.pre.target.y, hist.pre.nextTarget.y)
              /\ camera.zoom =
                    Smoothed(hist.pre, hist.pre.zoom, hist.pre.nextZoom)
              /\ ~AtGoal(camera)

\* y was within 0.001 of its goal but not on it and x further away than
\* that: the update snapped nothing and moved y by 0.15 of its distance
C25_Witness ==
    /\ hist.op = <<"update">>
    /\ DistY(hist.pre) # I(0)
    /\ NLt(DistY(hist.pre), SnapPos)
    /\ NLe(SnapPos, DistX(hist.pre))
    /\ DistZ(hist.pre) = I(0)
    /\ camera.target.y # camera.nextTarget.y
    /\ camera.target.y =
          Smoothed(hist.pre, hist.pre.target.y, hist.pre.nextTarget.y)

----------------------------------------------------------------------------
(* SpecSerial: renderMultipleModels step by step.  The loop is a coroutine *)
(* that is either at the top of an iteration ("loop") or suspended at      *)
(* await this.renderAllAngles ("awaiting"); each renderAllAngles call is a *)
(* task that goes through readFile, page.evaluate and the four writeFile   *)
(* calls and then settles.  calls[1] is the run: the list, the loop        *)
(* index i, the loop's position pc and the phase of every task started.    *)

\* lists of up to MaxSerialModels models
MaxSerialModels == 2

SerialLists ==
    { l \in ListsOf(MaxSerialModels) : l # <<>> }

\* a task is in flight from its start until it has resolved or rejected
InFlight(task) == task.phase \notin {"resolved", "rejected"}

\* the loop after it has called renderAllAngles on model i, without the await
startRenderAllAngles_noAwait(run) ==
    [run EXCEPT !.tasks = Append(@, [phase |-> "readFile", angle |-> 0]),
                !.i = @ + 1]

\* const { renderResults, metadata } = await this.renderAllAngles(...): the
\* task starts with its readFile and the loop is suspended on it
startRenderAllAngles(run) ==
    [run EXCEPT !.tasks = Append(@, [phase |-> "readFile", angle |-> 0]),
                !.pc = "awaiting"]

\* the next phase of a renderAllAngles task whose pending operation has
\* finished, ok telling whether it succeeded
taskStep(task, ok) ==
    CASE task.phase = "readFile" ->
            IF ok THEN [task EXCEPT !.phase = "evaluate"]
            ELSE [task EXCEPT !.phase = "rejected"]
      [] task.phase = "evaluate" ->
            IF ok THEN [task EXCEPT !.phase = "writeFile", !.angle = 1]
            ELSE [task EXCEPT !.phase = "rejected"]
      [] task.phase = "writeFile" ->
            IF task.angle < Len(angles) THEN [task EXCEPT !.angle = @ + 1]
            ELSE [task EXCEPT !.phase = "resolved"]
      [] OTHER -> task

InitSerial ==
    /\ disk = {}
    /\ calls = <<>>
    /\ arg = <<>>
    /\ result = <<>>
    /\ hist = <<>>
    /\ camera = <<>>
    /\ inputController = <<>>
    /\ now = 0
    /\ worldData = <<>>
    /\ renderer = <<>>
    /\ isInitialized = FALSE
    /\ lastHoveredTile = Null

SerialCall(modelPaths) ==
    /\ calls = <<>>
    /\ arg = <<>>
    /\ arg' = modelPaths
    /\ calls' = <<[modelPaths |-> modelPaths, i |-> 1, pc |-> "loop",
                   tasks |-> <<>>]>>
    /\ UNCHANGED <<disk, result, hist>>
    /\ UNCHANGED notBatch

\* the loop takes its next model
SerialStart ==
    /\ calls # <<>>
    /\ calls[1].pc = "loop"
    /\ calls[1].i <= Len(calls[1].modelPaths)
    /\ calls' = <<startRenderAllAngles(calls[1])>>
    /\ UNCHANGED <<arg, disk, result, hist>>
    /\ UNCHANGED notBatch

\* the pending operation of task k finishes; a writeFile that succeeded has
\* put the file of its angle into the output directory
SerialTaskStep(k, ok) ==
    /\ calls # <<>>
    /\ k \in 1..Len(calls[1].tasks)
    /\ InFlight(calls[1].tasks[k])
    /\ LET task == calls[1].tasks[k]
       IN /\ calls' = <<[calls[1] EXCEPT !.tasks[k] = taskStep(task, ok)]>>
          /\ disk' = IF task.phase = "writeFile" /\ ok
                     THEN writeFile(disk,
                              <<basename(calls[1].modelPaths[k]),
                                angleNames[task.angle]>>, k)
                     ELSE disk
    /\ UNCHANGED <<arg, result, hist>>
    /\ UNCHANGED notBatch

\* the awaited task has settled: the loop goes on, through the try or the
\* catch, to the next model
SerialResume ==
    /\ calls # <<>>
    /\ calls[1].pc = "awaiting"
    /\ ~InFlight(calls[1].tasks[calls[1].i])
    /\ calls' = <<[calls[1] EXCEPT !.pc = "loop", !.i = @ + 1]>>
    /\ UNCHANGED <<arg, disk, result, hist>>
    /\ UNCHANGED notBatch

\* the loop is over and the call returns
SerialReturn ==
    /\ calls # <<>>
    /\ result = <<>>
    /\ calls[1].pc = "loop"
    /\ calls[1].i > Len(calls[1].modelPaths)
    /\ result' = [rejected |-> FALSE]
    /\ UNCHANGED <<arg, calls, disk, hist>>
    /\ UNCHANGED notBatch

NextSerial ==
    \/ \E modelPaths \in SerialLists : SerialCall(modelPaths)
    \/ SerialStart
    \/ \E k \in 1..MaxSerialModels, ok \in BOOLEAN : SerialTaskStep(k, ok)
    \/ SerialResume
    \/ SerialReturn

SpecSerial == InitSerial /\ [][NextSerial]_vars

TasksInFlight ==
    IF calls = <<>> THEN {}
    ELSE { k \in 1..Len(calls[1].tasks) : InFlight(calls[1].tasks[k]) }

\* C26: within one renderMultipleModels run at most one model's render is in
\* flight at any time, and the render of a model has started only when the
\* renderAllAngles of every model before it has resolved or rejected.
C26_OneRenderInFlight ==
    /\ Cardinality(TasksInFlight) <= 1
    /\ calls # <<>> =>
          \A k \in 1..Len(calls[1].tasks) : \A j \in 1..(k - 1) :
              ~InFlight(calls[1].tasks[j])

\* the second model is in page.evaluate after the first one's render was
\* rejected
C26_Witness ==
    /\ calls # <<>>
    /\ Len(calls[1].tasks) = 2
    /\ calls[1].tasks[1].phase = "rejected"
    /\ calls[1].tasks[2].phase = "evaluate"
    /\ TasksInFlight = {2}

----------------------------------------------------------------------------
(* SpecDispose: a pipeline run, generate2DAssets, testRender or            *)
(* testRenderAllAngles, from new Renderer3D through init(), the render and *)
(* the finally block.  calls[1] is the run: which function it is, where it *)
(* is (pc), the Renderer3D and how often dispose() was called.  A resource *)
(* field is "null", or the state of the object it holds.                   *)

\* generate2DAssets renders up to MaxRunModels models in a run
MaxRunModels == 3

Renderer3D_new == [browser |-> "null", page |-> "null", server |-> "null"]

\* startLocalServer: createServer is assigned to this.server, then listen
\* calls back (resolve) or the server emits error (reject)
startLocalServer(r, listens) ==
    [r EXCEPT !.server = IF listens THEN "listening" ELSE "created"]

\* this.browser = await puppeteer.launch(...)
launch(r) == [r EXCEPT !.browser = "open"]

\* this.page = await this.browser.newPage() and the page set-up after it
newPage(r) == [r EXCEPT !.page = "ready"]

\* dispose(): closes tells whether await this.browser.close() resolves; when
\* it rejects, dispose rejects there
dispose(r, closes) ==
    IF r.browser # "null"
    THEN IF closes
         THEN LET r1 == [r EXCEPT !.browser = "closed", !.page = "closed"]
              IN [renderer |-> IF r1.server # "null"
                               THEN [r1 EXCEPT !.server = "closed"] ELSE r1,
                  rejected |-> FALSE]
         ELSE [renderer |-> r, rejected |-> TRUE]
    ELSE [renderer |-> IF r.server # "null"
                       THEN [r EXCEPT !.server = "closed"] ELSE r,
          rejected |-> FALSE]

RunKinds == {"generate2DAssets", "testRender", "testRenderAllAngles"}

InitDispose ==
    /\ calls = <<>>
    /\ hist = [launched |-> FALSE, started |-> FALSE, failed |-> "no"]
    /\ disk = {}
    /\ arg = <<>>
    /\ result = <<>>
    /\ camera = <<>>
    /\ inputController = <<>>
    /\ now = 0
    /\ worldData = <<>>
    /\ renderer = <<>>
    /\ isInitialized = FALSE
    /\ lastHoveredTile = Null

notDispose ==
    <<camera, inputController, now, worldData, renderer, isInitialized,
      lastHoveredTile, disk, result>>

\* const renderer = new Renderer3D(...), and the try is entered; n is the
\* number of models generate2DAssets found to generate
RunConstruct(kind, n) ==
    /\ calls = <<>>
    /\ kind # "generate2DAssets" => n = 1
    /\ arg' = [fn |-> kind, models |-> n]
    /\ calls' = <<[fn |-> kind, pc |-> "startLocalServer",
                   renderer |-> Renderer3D_new, disposeCalls |-> 0,
                   rendered |-> 0, failures |-> 0, rejected |-> FALSE]>>
    /\ UNCHANGED hist
    /\ UNCHANGED notDispose

\* a step of init() or of the render fails: the try is left for the finally
Fails(run) == [run EXCEPT !.pc = "finally", !.rejected = TRUE]

RunStartLocalServer(listens) ==
    /\ calls # <<>>
    /\ calls[1].pc = "startLocalServer"
    /\ LET run == [calls[1] EXCEPT
                     !.renderer = startLocalServer(@, listens)]
       IN calls' = <<IF listens THEN [run EXCEPT !.pc = "launch"]
                     ELSE Fails(run)>>
    /\ hist' = [hist EXCEPT !.started = listens,
                            !.failed = IF listens THEN @ ELSE "init"]
    /\ UNCHANGED arg
    /\ UNCHANGED notDispose

RunLaunch(launches) ==
    /\ calls # <<>>
    /\ calls[1].pc = "launch"
    /\ calls' = <<IF launches
                  THEN [calls[1] EXCEPT !.renderer = launch(@), !.pc = "newPage"]
                  ELSE Fails(calls[1])>>
    /\ hist' = [hist EXCEPT !.launched = launches,
                            !.failed = IF launches THEN @ ELSE "init"]
    /\ UNCHANGED arg
    /\ UNCHANGED notDispose

\* newPage, setViewport, setContent and the two waitForFunction calls
RunNewPage(loads) ==
    /\ calls # <<>>
    /\ calls[1].pc = "newPage"
    /\ calls' = <<IF loads
                  THEN [calls[1] EXCEPT !.renderer = newPage(@), !.pc = "render"]
                  ELSE Fails(calls[1])>>
    /\ hist' = [hist EXCEPT !.failed = IF loads THEN @ ELSE "init"]
    /\ UNCHANGED arg
    /\ UNCHANGED notDispose

\* testRender and testRenderAllAngles: the awaited render call resolves or
\* rejects
RunRender(renders) ==
    /\ calls # <<>>
    /\ calls[1].pc = "render"
    /\ calls[1].fn # "generate2DAssets"
    /\ calls' = <<IF renders
                  THEN [calls[1] EXCEPT !.rendered = @ + 1, !.pc = "finally"]
                  ELSE Fails(calls[1])>>
    /\ hist' = [hist EXCEPT !.failed = IF renders THEN @ ELSE "render"]
    /\ UNCHANGED arg
    /\ UNCHANGED notDispose

\* generate2DAssets: renderMultipleModels takes the next model, whose
\* renderAllAngles resolves or rejects; the loop goes on either way
RunRenderModel(renders) ==
    /\ calls # <<>>
    /\ calls[1].pc = "render"
    /\ calls[1].fn = "generate2DAssets"
    /\ calls[1].rendered + calls[1].failures < arg.models
    /\ calls' = <<IF renders THEN [calls[1] EXCEPT !.rendered = @ + 1]
                  ELSE [calls[1] EXCEPT !.failures = @ + 1]>>
    /\ hist' = [hist EXCEPT !.failed = IF renders THEN @ ELSE "render"]
    /\ UNCHANGED arg
    /\ UNCHANGED notDispose

\* generate2DAssets: renderMultipleModels writes the consolidated metadata
\* (when a model was rendered) and returns, or rejects when the write fails
RunWriteMetadata(written) ==
    /\ calls # <<>>
    /\ calls[1].pc = "render"
    /\ calls[1].fn = "generate2DAssets"
    /\ calls[1].rendered + calls[1].failures = arg.models
    /\ calls[1].rendered = 0 => written
    /\ calls' = <<IF written THEN [calls[1] EXCEPT !.pc = "finally"]
                  ELSE Fails(calls[1])>>
    /\ hist' = [hist EXCEPT !.failed = IF written THEN @ ELSE "render"]
    /\ UNCHANGED arg
    /\ UNCHANGED notDispose

\* finally { await renderer.dispose(); }: dispose() is called; with a browser
\* it is suspended at await this.browser.close(), without one it runs through
RunDispose ==
    /\ calls # <<>>
    /\ calls[1].pc = "finally"
    /\ calls' = <<IF calls[1].renderer.browser # "null"
                  THEN [calls[1] EXCEPT !.disposeCalls = @ + 1,
                                        !.pc = "browser.close"]
                  ELSE [calls[1] EXCEPT
                          !.renderer = dispose(@, TRUE).renderer,
                          !.disposeCalls = @ + 1,
                          !.pc = "done"]>>
    /\ UNCHANGED <<arg, hist>>
    /\ UNCHANGED notDispose

\* browser.close() settles and dispose() runs to its end or rejects
RunBrowserClose(closes) ==
    /\ calls # <<>>
    /\ calls[1].pc = "browser.close"
    /\ LET d == dispose(calls[1].renderer, closes)
       IN calls' = <<[calls[1] EXCEPT
                        !.renderer = d.renderer,
                        !.rejected = @ \/ d.rejected,
                        !.pc = "done"]>>
    /\ UNCHANGED <<arg, hist>>
    /\ UNCHANGED notDispose

NextDispose ==
    \/ \E kind \in RunKinds, n \in 1..MaxRunModels : RunConstruct(kind, n)
    \/ \E listens \in BOOLEAN : RunStartLocalServer(listens)
    \/ \E launches \in BOOLEAN : RunLaunch(launches)
    \/ \E loads \in BOOLEAN : RunNewPage(loads)
    \/ \E renders \in BOOLEAN : RunRender(renders)
    \/ \E renders \in BOOLEAN : RunRenderModel(renders)
    \/ \E written \in BOOLEAN : RunWriteMetadata(written)
    \/ RunDispose
    \/ \E closes \in BOOLEAN : RunBrowserClose(closes)

SpecDispose == InitDispose /\ [][NextDispose]_vars

RunDone == calls # <<>> /\ calls[1].pc = "done"

\* C27: a run that constructs a Renderer3D and starts init() has called
\* dispose() exactly once when it ends, whether init failed, a render failed
\* or all succeeded, and never more than once; and after the dispose() call
\* the browser is closed if it was launched and the local server is stopped
\* if it was started.
C27_DisposedOnceAndReleased ==
    /\ calls # <<>> => calls[1].disposeCalls <= 1
    /\ RunDone =>
          /\ calls[1].disposeCalls = 1
          /\ hist.launched => calls[1].renderer.browser = "closed"
          /\ hist.started => calls[1].renderer.server = "closed"

----------------------------------------------------------------------------
(* Claims about the hovered sprite of the IsometricRenderer, on            *)
(* SpecRenderer.                                                           *)

\* C28: after any sequence of renderTile, removeTile, clear, setTileHover and
\* clearAllHover calls, hoveredTile is null or a sprite registered in
\* tileSprites, never one destroyed by a re-render, removeTile or clear.
C28_HoveredTileRegistered ==
    \/ renderer.hoveredTile = 0
    \/ /\ renderer.hoveredTile \in Registered(renderer)
       /\ ~renderer.sprites[renderer.hoveredTile].destroyed

----------------------------------------------------------------------------
(* Claims about the coordinates stamped on stored tiles, on SpecStore.     *)

\* C29: after any sequence of setTile and generateRandom calls, setTile with
\* the same tile record at two coordinates included, every tile stored under
\* the key (x, y) has tile.x = x and tile.y = y.
C29_TileStampedWithItsKey ==
    \A key \in TileKeys(worldData) :
        LET tile == getTile(worldData, key[1], key[2])
        IN tile.x = key[1] /\ tile.y = key[2]

----------------------------------------------------------------------------
(* Claims about the crop of canvases with little content, on SpecCrop.     *)

\* the pixels of the canvas given to cropCanvas whose alpha is above 0
Opaque == {p \in arg.canvas.pixels : p.alpha > 0}

\* C30: cropCanvas returns the uncropped canvas only when no pixel has alpha
\* above the threshold; when there is such a pixel, a single pixel or a
\* single column or row of pixels included, the result is the crop to their
\* bounding rectangle, (maxX - minX + 1) wide and (maxY - minY + 1) high.
C30_CroppedToContent ==
    (CropDone /\ Opaque # {}) =>
        LET minX == FoldMin(arg.canvas.width, {p.x : p \in Opaque})
            maxX == FoldMax(0, {p.x : p \in Opaque})
            minY == FoldMin(arg.canvas.height, {p.y : p \in Opaque})
            maxY == FoldMax(0, {p.y : p \in Opaque})
        IN /\ result.width = maxX - minX + 1
           /\ result.height = maxY - minY + 1
           /\ result.pixels = {[x |-> p.x - minX, y |-> p.y - minY,
                                alpha |-> p.alpha] : p \in arg.canvas.pixels}

====
